---- MODULE Spec2Model ----
(***************************************************************************)
(* A model of krostar/httpclient: one request/response cycle of the fluent *)
(* builders.  A RequestBuilder is configured, finalized by Request() and   *)
(* executed by Do(), which captures the Doer's outcome in a                *)
(* ResponseBuilder; the ResponseBuilder is configured (body size read      *)
(* limit, per-status handlers) and resolved by Error().                    *)
(*                                                                         *)
(* Abstractions.  A body stream is the number of bytes it delivers before  *)
(* it ends (by EOF or by a read error: io.ReadAll's caller ignores which). *)
(* An error value is the sequence of its layers, outermost first: fmt's %w *)
(* puts a layer in front of the wrapped error, so errors.Is(e, t) is "t is *)
(* a suffix of e"; the nil error is the empty sequence.  A custom handler  *)
(* is caller code: what it reads from resp.Body, whether it closes it and  *)
(* what it returns are chosen when it runs.                                *)
(***************************************************************************)
EXTENDS Integers, Sequences, FiniteSets, TLC

\* ------------------------------------------------------------------ bounds

\* Largest number of bytes a response body stream delivers.
MaxBodyLen == 3

\* Largest declared Content-Length of a response (-1 is "unknown").
MaxContentLength == 2

\* Largest body size read limit a caller sets (-1 disables the limit).
MaxReadLimit == 3

\* How many times Request() is called directly on one builder.
MaxRequestCalls == 2

\* How many handler registrations are logged on one ResponseBuilder.
MaxRegistrations == 2

\* Largest number of values one header of a RequestBuilder holds.
MaxHeaderValues == 2

\* Largest number of key=value pairs in a form body or a query string.
MaxFormPairs == 2

\* How many times ParsePostForm is called on one request.
MaxParseCalls == 2

\* Largest number of calls a DoerStub is configured with.
MaxStubCalls == 3

\* How many Do calls are started on one DoerStub or DoerSpy.
MaxDoCalls == 2

\* How many goroutines call Do concurrently.
MaxDoers == 2

\* How many times RemainingCalls() or Calls() is called.
MaxSnapshots == 1

\* How many times Calls() is called on one DoerSpy.
MaxSpyReads == 2

\* How many requests the do function sends to the temporary server.
MaxServerRequests == 2

\* The request cycles that run on one API at a time.
MaxCycles == 2

\* The largest number of values the caller's default header holds.
MaxDefaultValues == 3

\* The largest number of values one query parameter of a builder's URL holds.
MaxQueryValues == 2

\* ------------------------------------------------------------- small helpers

Min(a, b) == IF a <= b THEN a ELSE b

IsSuffix(t, e) ==
    /\ Len(t) <= Len(e)
    /\ \A i \in 1..Len(t) : t[i] = e[Len(e) - Len(t) + i]

\* One layer of an error: its message and the values formatted into it.
Layer(msg, method, url, nums) ==
    [msg |-> msg, method |-> method, url |-> url, nums |-> nums]

\* errors.New(msg)
NewError(msg) == <<Layer(msg, "", "", <<>>)>>

\* Mutant of Wrap: the error is formatted with %v, only its text is kept.
Wrap_TextOnly(layer, err) == <<layer>>

\* fmt.Errorf(".. %w", err): a new layer in front of err, which stays reachable.
Wrap(layer, err) == <<layer>> \o err

NoError == <<>>

\* Error values supplied by callers and collaborators.
ErrSentinel == NewError("sentinel")          \* given to ErrorOnStatus
ErrHandler == NewError("handler failed")     \* returned by a custom handler
ErrDoer == NewError("doer failed")           \* returned by the Doer
ErrMarshal == NewError("marshal failed")     \* returned by the body marshaler
ErrOverride == NewError("override failed")   \* returned by the override hook
ErrInjected == NewError("boom")              \* set on builderError by a test
ErrDecode == NewError("json decode failed")  \* returned by json.Decoder.Decode

\* ------------------------------------------------------------ input domains

Statuses == {200, 418, 500}
Methods == {"GET", "\\"}                 \* "\\" is not a valid method token
Endpoints == {"http://localhost", "\\:/\\"}   \* the second does not parse
HandlerIds == {1, 2}

APIMethods == {"HEAD", "GET", "POST", "PUT", "PATCH", "DELETE"}

ValidMethod(method) == method \in APIMethods

\* url.QueryEscape on the query keys and values of the model.
QueryEscape(text) == IF text = "a b" THEN "a+b" ELSE text

\* A RawQuery is the sequence of its pieces [k, v, ok], ok telling whether the
\* piece is well formed; its text joins "k=v" with "&".
RECURSIVE QueryText(_)
QueryText(pieces) ==
    IF pieces = <<>> THEN ""
    ELSE QueryEscape(Head(pieces).k) \o "=" \o QueryEscape(Head(pieces).v)
             \o (IF Tail(pieces) = <<>> THEN "" ELSE "&" \o QueryText(Tail(pieces)))

\* A Path is the sequence of its pieces, cut where the patterns given to
\* PathReplacer start and end; its text is the pieces joined.
RECURSIVE JoinTokens(_)
JoinTokens(tokens) ==
    IF tokens = <<>> THEN "" ELSE Head(tokens) \o JoinTokens(Tail(tokens))

\* The zero url.URL.
ZeroURL == [Scheme |-> "", User |-> <<>>, Host |-> "", Path |-> <<>>, RawQuery |-> <<>>]

\* The path escaping of url.URL.EscapedPath on the pieces of the model: "{"
\* is written %7B, "}" %7D and a blank %20; the other characters of the
\* model's paths stay.
PathEscape(piece) ==
    CASE piece = "{userID}" -> "%7BuserID%7D"
      [] piece = "/{userID}" -> "/%7BuserID%7D"
      [] piece = "/{ userID }" -> "/%7B%20userID%20%7D"
      [] piece = "{foo}" -> "%7Bfoo%7D"
      [] piece = "{bar}" -> "%7Bbar%7D"
      [] piece = "{foobar}" -> "%7Bfoobar%7D"
      [] piece = "{none}" -> "%7Bnone%7D"
      [] OTHER -> piece

\* u.EscapedPath(): the path escaped.  A RawPath that url.Parse kept is only
\* used when it is a valid encoding of Path, which a text with "{", "}" or a
\* blank is not.
EscapedPath(path) == JoinTokens([i \in DOMAIN path |-> PathEscape(path[i])])

\* The text of a URL around the given text of its path: scheme, "//" with
\* user info and host, path, query.
URLText(u, pathText) ==
    (IF u.Scheme # "" THEN u.Scheme \o ":" ELSE "")
        \o (IF u.Scheme # "" \/ u.Host # "" \/ u.User # <<>>
            THEN (IF u.Host # "" \/ u.Path # <<>> \/ u.User # <<>> THEN "//" ELSE "")
                     \o (IF u.User = <<>> THEN "" ELSE u.User[1] \o "@")
                     \o u.Host
            ELSE "")
        \o pathText
        \o (IF u.RawQuery # <<>> THEN "?" \o QueryText(u.RawQuery) ELSE "")

\* url.URL.String(): the path is written escaped.
URLString(u) == URLText(u, EscapedPath(u.Path))

\* The URLs the endpoints of the model are the texts of.
URLs ==
    [ Scheme : {"http"},
      User : {<<>>, <<"foo:bar">>},
      Host : {"localhost"},
      Path : { <<>>, <<"/foo">>, <<"/bar">>, <<"/foo/bar">>,
               <<"/", "{userID}">>, <<"/foo/", "{userID}">>,
               <<"/", "localhost">>,
               <<"/", "{userID}", "/", "{userID}", "/{ userID }">>,
               <<"/", "{foo}", "/", "{bar}", "/", "{foobar}">> },
      RawQuery : { <<>>,
                   << [k |-> "foo", v |-> "1", ok |-> TRUE],
                      [k |-> "bar", v |-> "2", ok |-> TRUE] >> } ]

\* url.Parse(endpoint): [ok, url]: the URL whose text the endpoint is, with
\* the path written escaped or as it is; a text that is no URL's does not
\* parse.
ParseURL(endpoint) ==
    LET parsed == {u \in URLs : \/ URLString(u) = endpoint
                                \/ URLText(u, JoinTokens(u.Path)) = endpoint}
    IN IF parsed # {}
       THEN [ok |-> TRUE, url |-> CHOOSE u \in parsed : TRUE]
       ELSE [ok |-> FALSE, url |-> ZeroURL]

\* -------------------------------------------------------------- the state

VARIABLES
    pc,        \* "request": the RequestBuilder is being configured;
               \* "response": Do returned, the ResponseBuilder is configured;
               \* "done": Error returned (or panicked)
    rqb,       \* the RequestBuilder's fields
    sent,      \* the calls of the Doer, in order: the request, the answer
    calls,     \* how often the marshaler and Request ran, what the hook got
    lastReq,   \* what the last direct Request() call returned
    rb,        \* the ResponseBuilder's fields; resp is <<>> (nil) or <<r>>
    stream,    \* the underlying response body stream: bytes, read, closed
    invoked,   \* the status handlers invoked by Error, in order
    result,    \* what Error returned
    registered, \* the logged handler registrations on the ResponseBuilder
    api,       \* the API and its clone, their maps, the API in use
    conc,      \* request cycles sharing one API: builders and backing arrays
    form,      \* the *http.Request given to ParsePostForm, and what it returned
    stub,      \* a DoerStub, the slices around it, the Do calls in flight
    spy,       \* a DoerSpy, the Do calls in flight, the Calls() results
    srv        \* one Server.AssertRequest run: goroutines and the channel

vars == <<pc, rqb, sent, calls, lastReq, rb, stream, invoked, result, registered, api,
          conc, form, stub, spy, srv>>

\* The variables of the helpers and of the concurrent cycles.
helperVars == <<conc, form, stub, spy, srv>>

\* Nothing of the helpers exists.
NoHelpers ==
    /\ conc = <<>>
    /\ form = <<>>
    /\ stub = <<>>
    /\ spy = <<>>
    /\ srv = <<>>


\* ------------------------------------------------------ the RequestBuilder

\* textproto.CanonicalMIMEHeaderKey on the header names of the model.
CanonicalMIMEHeaderKey(key) ==
    CASE key = "content-type" -> "Content-Type"
      [] key = "x-id" -> "X-Id"
      [] key = "accept" -> "Accept"
      [] OTHER -> key

\* NewRequest(method, endpoint): a parse error is captured, not returned.
NewRequest(method, endpoint) ==
    LET parsed == ParseURL(endpoint)
    IN [ builderError |->
             IF parsed.ok THEN NoError
             ELSE <<Layer("unable to parse endpoint url", "", endpoint, <<>>)>>,
         client |-> "http.DefaultClient",
         method |-> method,
         url |-> parsed.url,
         header |-> <<>>,
         body |-> "nil",
         bodyToMarshal |-> "nil",
         bodyMarshaler |-> "nil",
         overrideFunc |-> "nil" ]

Client(b, client) == [b EXCEPT !.client = client]

\* SetHeader replaces the values of the canonicalized key.
SetHeader(b, key, values) ==
    [b EXCEPT !.header = (CanonicalMIMEHeaderKey(key) :> values) @@ b.header]

\* SetHeaders assigns each given key as it is spelled.
SetHeaders(b, header) == [b EXCEPT !.header = header @@ b.header]

\* AddHeader appends to the values of the canonicalized key.
AddHeader(b, key, values) ==
    LET k == CanonicalMIMEHeaderKey(key)
    IN [b EXCEPT !.header =
           (k :> ((IF k \in DOMAIN b.header THEN b.header[k] ELSE <<>>) \o values))
               @@ b.header]

\* AddHeaders appends to the values of each given key as it is spelled.
AddHeaders(b, header) ==
    [b EXCEPT !.header =
        [k \in DOMAIN header |->
            (IF k \in DOMAIN b.header THEN b.header[k] ELSE <<>>) \o header[k]]
            @@ b.header]

SendForm(b) ==
    SetHeader([b EXCEPT !.body = "form"],
              "Content-Type", <<"application/x-www-form-urlencoded">>)

SendJSON(b, obj) ==
    SetHeader([b EXCEPT !.bodyToMarshal = obj, !.bodyMarshaler = "json.Marshal"],
              "Content-Type", <<"application/json">>)

Send(b) ==
    SetHeader([b EXCEPT !.body = "reader"],
              "Content-Type", <<"application/octet-stream">>)

SetOverrideFunc(b, overrideFunc) == [b EXCEPT !.overrideFunc = overrideFunc]

\* The marshaler on an object: [ok, err].  json.Marshal fails on a value it
\* cannot encode (a channel, a function).
Marshal(obj) ==
    IF obj = "unmarshalable"
    THEN [ok |-> FALSE, err |-> ErrMarshal]
    ELSE [ok |-> TRUE, err |-> NoError]

\* http.NewRequestWithContext: rejects an invalid method token.
NewRequestWithContext(method, url, body) ==
    IF ValidMethod(method)
    THEN [req |-> <<[Method |-> method, URL |-> url, Header |-> <<>>,
                     Body |-> body, overridden |-> FALSE]>>,
          err |-> NoError]
    ELSE [req |-> <<>>, err |-> NewError("net/http: invalid method")]

\* The override hook on a request: [req, err].
Override(overrideFunc, req) ==
    IF overrideFunc = "fail"
    THEN [req |-> <<>>, err |-> ErrOverride]
    ELSE [req |-> <<[req[1] EXCEPT !.overridden = TRUE]>>, err |-> NoError]

\* Mutant of RequestResult: Request uses up the override hook.
RequestResult_DropsHook(req, err, b, marshaled, overrode) ==
    [ req |-> req, err |-> err, b |-> [b EXCEPT !.overrideFunc = "nil"],
      marshaled |-> marshaled, overrode |-> overrode ]

\* A result of Request: the request (<<>> is nil), the error, the builder as
\* Request leaves it, how often it ran the marshaler, and the requests it
\* handed to the override hook.
RequestResult(req, err, b, marshaled, overrode) ==
    [req |-> req, err |-> err, b |-> b, marshaled |-> marshaled, overrode |-> overrode]

\* Mutant of BuildRequest: the hook runs on the request as constructed, and
\* the headers are copied onto what the hook returned.
BuildRequest_HookBeforeHeaders(b, marshaled) ==
    LET made == NewRequestWithContext(b.method, URLString(b.url), b.body)
    IN IF made.err # NoError
       THEN RequestResult(<<>>,
                Wrap(Layer("unable to create request", b.method, URLString(b.url), <<>>), made.err),
                b, marshaled, <<>>)
       ELSE IF b.overrideFunc = "nil"
       THEN RequestResult(<<[made.req[1] EXCEPT !.Header = b.header]>>,
                          NoError, b, marshaled, <<>>)
       ELSE LET over == Override(b.overrideFunc, made.req)
            IN IF over.err # NoError
               THEN RequestResult(<<>>,
                        Wrap(Layer("unable to override request", "", "", <<>>), over.err),
                        b, marshaled, made.req)
               ELSE RequestResult(<<[over.req[1] EXCEPT !.Header = b.header]>>,
                                  NoError, b, marshaled, made.req)

\* The tail of Request, from http.NewRequestWithContext on; b is the builder
\* after the marshaling step.
BuildRequest(b, marshaled) ==
    LET made == NewRequestWithContext(b.method, URLString(b.url), b.body)
    IN IF made.err # NoError
       THEN RequestResult(<<>>,
                Wrap(Layer("unable to create request", b.method, URLString(b.url), <<>>), made.err),
                b, marshaled, <<>>)
       ELSE LET req == <<[made.req[1] EXCEPT !.Header = b.header]>>
            IN IF b.overrideFunc = "nil"
               THEN RequestResult(req, NoError, b, marshaled, <<>>)
               ELSE LET over == Override(b.overrideFunc, req)
                    IN IF over.err # NoError
                       THEN RequestResult(<<>>,
                                Wrap(Layer("unable to override request", "", "", <<>>), over.err),
                                b, marshaled, req)
                       ELSE RequestResult(over.req, NoError, b, marshaled, req)

\* Mutant of BodyConflict: a body that is already set is not looked at.
BodyConflict_Never(b) == FALSE

\* With an object to marshal, a body that is already set is a conflict.
BodyConflict(b) == b.body # "nil"

\* "body to marshal is set but body is already set"
ErrBodyConflict == NewError("body to marshal is set but body is already set")

\* Mutant of Request: the bodies are checked before the captured error.
Request_ConflictFirst(b) ==
    IF b.bodyToMarshal # "nil" /\ BodyConflict(b)
    THEN RequestResult(<<>>, ErrBodyConflict, b, 0, <<>>)
    ELSE IF b.builderError # NoError
    THEN RequestResult(<<>>, b.builderError, b, 0, <<>>)
    ELSE IF b.bodyToMarshal # "nil"
    THEN IF b.bodyMarshaler = "nil"
         THEN RequestResult(<<>>, NewError("body to marshal is set but body marshaller is unset"), b, 0, <<>>)
         ELSE LET raw == Marshal(b.bodyToMarshal)
              IN IF ~raw.ok
                 THEN RequestResult(<<>>,
                          Wrap(Layer("unable to marshal body", "", "", <<>>), raw.err), b, 1, <<>>)
                 ELSE BuildRequest([b EXCEPT !.body = "marshaled"], 1)
    ELSE BuildRequest(b, 0)

\* Request builds the http.Request; it stores the marshaled body in b.body.
Request(b) ==
    IF b.builderError # NoError
    THEN RequestResult(<<>>, b.builderError, b, 0, <<>>)
    ELSE IF b.bodyToMarshal # "nil"
    THEN IF BodyConflict(b)
         THEN RequestResult(<<>>, ErrBodyConflict, b, 0, <<>>)
         ELSE IF b.bodyMarshaler = "nil"
         THEN RequestResult(<<>>, NewError("body to marshal is set but body marshaller is unset"), b, 0, <<>>)
         ELSE LET raw == Marshal(b.bodyToMarshal)
              IN IF ~raw.ok
                 THEN RequestResult(<<>>,
                          Wrap(Layer("unable to marshal body", "", "", <<>>), raw.err), b, 1, <<>>)
                 ELSE BuildRequest([b EXCEPT !.body = "marshaled"], 1)
    ELSE BuildRequest(b, 0)

\* ----------------------------------------------------- the ResponseBuilder

\* newResponse(): no error, no response, limit 0, no handler.
newResponse ==
    [ builderError |-> NoError,
      resp |-> <<>>,
      bodySizeReadLimit |-> 0,
      statusHandler |-> <<>> ]

\* Handlers.  SuccessOnStatus and ErrorOnStatus register closures that do not
\* touch the response; a custom handler is the caller's function number id.
SuccessHandler == [kind |-> "success", err |-> NoError, id |-> 0]
ErrorHandler(err) == [kind |-> "error", err |-> err, id |-> 0]
CustomHandler(id) == [kind |-> "custom", err |-> NoError, id |-> id]
JSONHandler(dest) == [kind |-> "json", err |-> NoError, id |-> dest]

BodySizeReadLimit(b, bodySizeReadLimit) ==
    [b EXCEPT !.bodySizeReadLimit = bodySizeReadLimit]

\* Mutant of OnStatus: a status that has a handler keeps it.
OnStatus_FirstWins(b, status, handler) ==
    [b EXCEPT !.statusHandler = b.statusHandler @@ (status :> handler)]

\* b.statusHandler[status] = handler
OnStatus(b, status, handler) ==
    [b EXCEPT !.statusHandler = (status :> handler) @@ b.statusHandler]

RECURSIVE OnStatuses(_, _, _)
OnStatuses(b, statuses, handler) ==
    IF statuses = <<>> THEN b
    ELSE OnStatuses(OnStatus(b, Head(statuses), handler), Tail(statuses), handler)

SuccessOnStatus(b, statuses) == OnStatuses(b, statuses, SuccessHandler)

ErrorOnStatus(b, status, err) == OnStatus(b, status, ErrorHandler(err))

\* ReceiveJSON registers a closure that decodes resp.Body into dest.
ReceiveJSON(b, status, dest) == OnStatus(b, status, JSONHandler(dest))

\* "request METHOD URL failed with status CODE", the prefix of Error's errors,
\* as the layer that carries it.
formatResponseError(r, msg, nums) ==
    Layer(msg, r.Method, r.URL, <<r.StatusCode>> \o nums)

\* ------------------------------------------------------- the response body

\* resp.Body: `present` says the Doer gave a body stream, `limited` that Error
\* replaced resp.Body by io.NopCloser(io.LimitReader(body, N)).
OriginalBody(hasBody) == [present |-> hasBody, limited |-> FALSE, N |-> 0]

\* resp.Body != nil
BodyNotNil(body) == body.present \/ body.limited

\* Mutant of LimitBody: the body is left as it is, nothing caps the reads.
LimitBody_Unlimited(body, readLimit) == body

\* io.NopCloser(io.LimitReader(b.resp.Body, readLimit))
LimitBody(body, readLimit) == [body EXCEPT !.limited = TRUE, !.N = readLimit]

\* Reading up to `want` bytes from resp.Body (want = 0: no Read call).  A
\* LimitedReader with N <= 0 answers EOF without touching what it wraps; any
\* other read of an absent stream dereferences nil.
ReadBody(body, st, want) ==
    IF want = 0 \/ (body.limited /\ body.N <= 0)
    THEN [panic |-> FALSE, n |-> 0, body |-> body, st |-> st]
    ELSE IF ~body.present
    THEN [panic |-> TRUE, n |-> 0, body |-> body, st |-> st]
    ELSE LET n == Min(IF body.limited THEN Min(want, body.N) ELSE want,
                      st.len - st.read)
         IN [ panic |-> FALSE, n |-> n,
              body |-> [body EXCEPT !.N = IF body.limited THEN @ - n ELSE @],
              st |-> [st EXCEPT !.read = @ + n] ]

\* io.ReadAll(resp.Body): reads until the body ends.
ReadAll(body, st) == ReadBody(body, st, st.len + 1)

\* resp.Body.Close(): a NopCloser closes nothing.
CloseBody(body, st) ==
    IF body.limited THEN st ELSE [st EXCEPT !.closed = @ + 1]

\* base64.StdEncoding.EncodedLen(n)
EncodedLen(n) == ((n + 2) \div 3) * 4

\* ------------------------------------------------------------------ Error

\* Mutant of ResolveReadLimit: the case that rejects is missing.
ResolveReadLimit_NoReject(readLimit, contentLength) ==
    IF contentLength < 0
    THEN [reject |-> FALSE, readLimit |-> readLimit]
    ELSE IF readLimit = 0
    THEN [reject |-> FALSE, readLimit |-> contentLength]
    ELSE IF readLimit > contentLength
    THEN [reject |-> FALSE, readLimit |-> contentLength]
    ELSE [reject |-> FALSE, readLimit |-> readLimit]

\* Mutant of ResolveReadLimit: a limit of 0 is compared like any other limit.
ResolveReadLimit_ZeroCompared(readLimit, contentLength) ==
    IF contentLength < 0
    THEN [reject |-> FALSE, readLimit |-> readLimit]
    ELSE IF readLimit > contentLength
    THEN [reject |-> FALSE, readLimit |-> contentLength]
    ELSE IF readLimit < contentLength
    THEN [reject |-> TRUE, readLimit |-> readLimit]
    ELSE [reject |-> FALSE, readLimit |-> readLimit]

\* Mutant of ResolveReadLimit: a limit above the content length is kept.
ResolveReadLimit_NoShrink(readLimit, contentLength) ==
    IF contentLength < 0
    THEN [reject |-> FALSE, readLimit |-> readLimit]
    ELSE IF readLimit = 0
    THEN [reject |-> FALSE, readLimit |-> contentLength]
    ELSE IF readLimit > contentLength
    THEN [reject |-> FALSE, readLimit |-> readLimit]
    ELSE IF readLimit < contentLength
    THEN [reject |-> TRUE, readLimit |-> readLimit]
    ELSE [reject |-> FALSE, readLimit |-> readLimit]

\* The switch of Error on a non-negative read limit, its cases in the order
\* of the code: whether the response is rejected, and the limit to read with.
ResolveReadLimit(readLimit, contentLength) ==
    IF contentLength < 0
    THEN [reject |-> FALSE, readLimit |-> readLimit]
    ELSE IF readLimit = 0
    THEN [reject |-> FALSE, readLimit |-> contentLength]
    ELSE IF readLimit > contentLength
    THEN [reject |-> FALSE, readLimit |-> contentLength]
    ELSE IF readLimit < contentLength
    THEN [reject |-> TRUE, readLimit |-> readLimit]
    ELSE [reject |-> FALSE, readLimit |-> readLimit]

\* Mutant of ApplyReadLimit: the limit is applied whatever its sign.
ApplyReadLimit_Always(r, bodySizeReadLimit) ==
    LET lim == ResolveReadLimit(bodySizeReadLimit, r.ContentLength)
    IN IF lim.reject
       THEN [ reject |-> TRUE,
              err |-> <<formatResponseError(r, "content length is above read limit",
                                            <<r.ContentLength, lim.readLimit>>)>>,
              r |-> r ]
       ELSE [ reject |-> FALSE, err |-> NoError,
              r |-> [r EXCEPT !.Body = LimitBody(r.Body, lim.readLimit)] ]

\* The body size step of Error on response r: [reject, err, r], r with its
\* Body replaced by the limited reader unless the limit is negative.
ApplyReadLimit(r, bodySizeReadLimit) ==
    IF bodySizeReadLimit >= 0
    THEN LET lim == ResolveReadLimit(bodySizeReadLimit, r.ContentLength)
         IN IF lim.reject
            THEN [ reject |-> TRUE,
                   err |-> <<formatResponseError(r, "content length is above read limit",
                                                 <<r.ContentLength, lim.readLimit>>)>>,
                   r |-> r ]
            ELSE [ reject |-> FALSE, err |-> NoError,
                   r |-> [r EXCEPT !.Body = LimitBody(r.Body, lim.readLimit)] ]
    ELSE [reject |-> FALSE, err |-> NoError, r |-> r]

\* Mutant of DeferClose: the Close is deferred after the captured error is
\* returned.
DeferClose_OnlyWithoutError(b) ==
    b.builderError = NoError /\ b.resp # <<>> /\ BodyNotNil(b.resp[1].Body)

\* Error defers body.Close() when it holds a response with a body; `body` is
\* the stream as it is at entry, before the limit step replaces resp.Body.
DeferClose(b) == b.resp # <<>> /\ BodyNotNil(b.resp[1].Body)

\* What a custom handler does when it runs: it reads up to `want` bytes of
\* resp.Body, closes resp.Body or not, and returns `ret`.
Behaviours ==
    [want : 0..(MaxBodyLen + 1), closes : BOOLEAN, ret : {NoError, ErrHandler}]

NoBehaviour == [want |-> 0, closes |-> FALSE, ret |-> NoError]

\* statusHandler(b.resp): [panic, ret, n, body, st]: the handler's return
\* value, the bytes it read, and resp.Body and the stream as it leaves them.
\* The closure of ReceiveJSON decodes from resp.Body: the decoder reads
\* (beh.want >= 1 bytes), fails on a body that gives no byte (io.EOF) and
\* else fails or not with the bytes it got (beh.ret); its error is wrapped.
RunHandler(handler, r, st, beh) ==
    IF handler.kind = "custom"
    THEN LET rd == ReadBody(r.Body, st, beh.want)
         IN [ panic |-> FALSE, ret |-> beh.ret, n |-> rd.n, body |-> rd.body,
              st |-> IF beh.closes THEN CloseBody(rd.body, rd.st) ELSE rd.st ]
    ELSE IF handler.kind = "json"
    THEN LET rd == ReadBody(r.Body, st, beh.want)
         IN [ panic |-> rd.panic,
              ret |-> IF rd.panic \/ (rd.n > 0 /\ beh.ret = NoError) THEN NoError
                      ELSE Wrap(formatResponseError(r,
                                    "unable to parse JSON response body", <<>>),
                                ErrDecode),
              n |-> rd.n, body |-> rd.body, st |-> rd.st ]
    ELSE [panic |-> FALSE, ret |-> handler.err, n |-> 0, body |-> r.Body, st |-> st]

\* Mutant of HandlerFor: any registered handler will do.
HandlerFor_AnyRegistered(statusHandler, status) ==
    IF DOMAIN statusHandler # {}
    THEN <<statusHandler[CHOOSE s \in DOMAIN statusHandler : TRUE]>>
    ELSE <<>>

\* b.statusHandler[status]: <<handler>> if one is registered, else <<>>.
HandlerFor(statusHandler, status) ==
    IF status \in DOMAIN statusHandler THEN <<statusHandler[status]>> ELSE <<>>

\* Mutant of HasBuilderError: the captured error counts only when no response
\* is held.
HasBuilderError_OnlyWithoutResponse(b) == b.builderError # NoError /\ b.resp = <<>>

\* The first check of Error: a captured error ends the resolution.
HasBuilderError(b) == b.builderError # NoError

\* The record of one handler invocation: the status it was looked up for, the
\* handler, what it did (a custom handler's wish to read and to close) and
\* what came of it.
Invocation(status, handler, beh, run) ==
    [ status |-> status, handler |-> handler,
      want |-> IF handler.kind \in {"custom", "json"} THEN beh.want ELSE 0,
      closes |-> handler.kind = "custom" /\ beh.closes,
      ret |-> run.ret, n |-> run.n ]

\* No handler for the status: drain the body, report the status and, if any
\* byte was read, the body in base64.  [panic, err, n, body, st]
UnhandledStatus(r, st) ==
    LET rd == ReadAll(r.Body, st)
    IN [ panic |-> rd.panic,
         err |-> IF rd.panic THEN NoError
                 ELSE <<formatResponseError(r, "unhandled status",
                            IF rd.n > 0 THEN <<EncodedLen(rd.n)>> ELSE <<>>)>>,
         n |-> rd.n, body |-> rd.body, st |-> rd.st ]

ErrorResult(kind, err, b, st, inv) ==
    [kind |-> kind, err |-> err, b |-> b, st |-> st, invoked |-> inv]

\* Error on ResponseBuilder b whose response body is the stream st; beh is what
\* the matched handler does if it is a custom one.  kind is "returned" or
\* "panic"; the deferred Close runs on every return.
Error(b, st, beh) ==
    LET AtExit(s) == IF DeferClose(b) THEN [s EXCEPT !.closed = @ + 1] ELSE s
    IN IF HasBuilderError(b)
       THEN ErrorResult("returned", b.builderError, b, AtExit(st), <<>>)
       ELSE IF b.resp = <<>>
       THEN ErrorResult("panic", NoError, b, st, <<>>)
       ELSE LET lim == ApplyReadLimit(b.resp[1], b.bodySizeReadLimit)
                r == lim.r
            IN IF lim.reject
               THEN ErrorResult("returned", lim.err, b, AtExit(st), <<>>)
               ELSE IF HandlerFor(b.statusHandler, r.StatusCode) # <<>>
               THEN LET handler == HandlerFor(b.statusHandler, r.StatusCode)[1]
                        run == RunHandler(handler, r, st, beh)
                    IN ErrorResult(IF run.panic THEN "panic" ELSE "returned", run.ret,
                           [b EXCEPT !.resp = <<[r EXCEPT !.Body = run.body]>>],
                           AtExit(run.st),
                           <<Invocation(r.StatusCode, handler, beh, run)>>)
               ELSE LET un == UnhandledStatus(r, st)
                    IN ErrorResult(IF un.panic THEN "panic" ELSE "returned", un.err,
                           [b EXCEPT !.resp = <<[r EXCEPT !.Body = un.body]>>],
                           AtExit(un.st), <<>>)

\* ---------------------------------------------------------------------- Do

\* What the Doer answers: an error, a response, or both (http.Client gives
\* both when a redirect policy fails).  A response declares ContentLength and
\* has a body stream of bodyLen bytes, or a nil Body (a test double's literal).
DoerResponses ==
    [ BodyNil : {FALSE},
      StatusCode : Statuses,
      ContentLength : -1..MaxContentLength,
      bodyLen : 0..MaxBodyLen ]
    \cup
    [ BodyNil : {TRUE},
      StatusCode : Statuses,
      ContentLength : -1..MaxContentLength,
      bodyLen : {0} ]

DoerOutcomes ==
    [err : {NoError}, resp : {<<o>> : o \in DoerResponses}]
    \cup [err : {ErrDoer}, resp : {<<>>}]
    \cup [err : {ErrDoer}, resp : {<<[BodyNil |-> FALSE, StatusCode |-> 500,
                                      ContentLength |-> 0, bodyLen |-> 0]>>}]

NoStream == [len |-> 0, read |-> 0, closed |-> 0]

\* The *http.Response the Doer answers to req with o of DoerResponses.
Response(o, req) ==
    [ StatusCode |-> o.StatusCode,
      ContentLength |-> o.ContentLength,
      Body |-> OriginalBody(~o.BodyNil),
      Method |-> req.Method,
      URL |-> req.URL ]

\* Mutant of Capture: a response the Doer gave is stored even with an error.
Capture_KeepsResponse(req, outcome) ==
    [ newResponse EXCEPT
        !.builderError =
            IF outcome.err # NoError
            THEN Wrap(Layer("unable to execute request", req.Method, req.URL, <<>>),
                      outcome.err)
            ELSE NoError,
        !.resp =
            IF outcome.resp # <<>> THEN <<Response(outcome.resp[1], req)>> ELSE <<>> ]

\* The second half of Do: the Doer's answer to req, captured in the
\* ResponseBuilder: its error if it gave one, else its response.
Capture(req, outcome) ==
    IF outcome.err # NoError
    THEN [newResponse EXCEPT !.builderError =
              Wrap(Layer("unable to execute request", req.Method, req.URL, <<>>),
                   outcome.err)]
    ELSE [newResponse EXCEPT !.resp = <<Response(outcome.resp[1], req)>>]

\* Mutant of DoerCalls: a request the Doer failed on is sent a second time.
DoerCalls_RetryOnError(req, outcome) ==
    IF outcome.err # NoError
    THEN <<[req |-> req, outcome |-> outcome], [req |-> req, outcome |-> outcome]>>
    ELSE <<[req |-> req, outcome |-> outcome]>>

\* b.client.Do(req): the one call of the Doer that Do makes, with its answer.
DoerCalls(req, outcome) == <<[req |-> req, outcome |-> outcome]>>

\* What Do does with the result of Request(): [rb, b, st, sent, marshaled,
\* overrode]: the ResponseBuilder, the RequestBuilder as Request left it, the
\* body stream of the Doer's response and the calls of the Doer: the request
\* it got and what it answered.
DoRequest(built, outcome) ==
    LET out(rbuilder, st, doerCalls) ==
            [ rb |-> rbuilder, b |-> built.b, st |-> st, sent |-> doerCalls,
              marshaled |-> built.marshaled, overrode |-> built.overrode ]
    IN IF built.err # NoError
       THEN out([newResponse EXCEPT !.builderError =
                     Wrap(Layer("unable to create request", "", "", <<>>), built.err)],
                NoStream, <<>>)
       ELSE out(Capture(built.req[1], outcome),
                IF outcome.resp # <<>>
                THEN [len |-> outcome.resp[1].bodyLen, read |-> 0, closed |-> 0]
                ELSE NoStream,
                DoerCalls(built.req[1], outcome))

\* Do: Request(), then the rest.
Do(b, outcome) == DoRequest(Request(b), outcome)

\* ----------------------------------------------------------------- the API

\* The default of NewAPI for the body size read limit: 1 << 16.
DefaultResponseBodySizeReadLimit == 65536

\* NewAPI: [api, maps]: the API struct and the heap of maps, on which the
\* struct's two make()d maps are allocated; a struct refers to a map by its
\* index in the heap.
NewAPI(client, serverAddress) ==
    [ api |-> [ client |-> client,
                serverAddress |-> serverAddress,
                defaultRequestHeaders |-> 1,
                defaultRequestOverrideFunc |-> "nil",
                defaultResponseHandlers |-> 2,
                defaultResponseBodySizeReadLimit |-> DefaultResponseBodySizeReadLimit ],
      maps |-> << <<>>, <<>> >> ]

\* api.URL(endpoint): the server address, its user info copied, its path
\* extended by endpoint.
URL(a, endpoint) ==
    [a.serverAddress EXCEPT !.Path = IF endpoint = "" THEN @ ELSE @ \o <<endpoint>>]

\* Mutant of Clone: the clone refers to the maps of the original.
Clone_SharesMaps(a, maps) ==
    [ api |-> [ client |-> a.client,
                serverAddress |-> URL(a, ""),
                defaultRequestHeaders |-> a.defaultRequestHeaders,
                defaultRequestOverrideFunc |-> "nil",
                defaultResponseHandlers |-> a.defaultResponseHandlers,
                defaultResponseBodySizeReadLimit |-> a.defaultResponseBodySizeReadLimit ],
      maps |-> maps ]

\* api.Clone(): [api, maps]: a new struct with two new maps, into which the
\* entries of the original's maps are copied; defaultRequestOverrideFunc is
\* not among the fields the struct literal sets.
Clone(a, maps) ==
    [ api |-> [ client |-> a.client,
                serverAddress |-> URL(a, ""),
                defaultRequestHeaders |-> Len(maps) + 1,
                defaultRequestOverrideFunc |-> "nil",
                defaultResponseHandlers |-> Len(maps) + 2,
                defaultResponseBodySizeReadLimit |-> a.defaultResponseBodySizeReadLimit ],
      maps |-> maps \o << [k \in DOMAIN maps[a.defaultRequestHeaders] |->
                               maps[a.defaultRequestHeaders][k]],
                          [k \in DOMAIN maps[a.defaultResponseHandlers] |->
                               maps[a.defaultResponseHandlers][k]] >> ]

WithRequestOverrideFunc(a, overrideFunc) ==
    [a EXCEPT !.defaultRequestOverrideFunc = overrideFunc]

\* WithRequestHeaders writes into the map the struct refers to: the heap after.
WithRequestHeaders(a, maps, headers) ==
    [maps EXCEPT ![a.defaultRequestHeaders] = headers @@ @]

\* WithResponseHandler writes into the map the struct refers to: the heap after.
WithResponseHandler(a, maps, status, handler) ==
    [maps EXCEPT ![a.defaultResponseHandlers] = (status :> handler) @@ @]

WithResponseBodySizeReadLimit(a, bodySizeReadLimit) ==
    [a EXCEPT !.defaultResponseBodySizeReadLimit = bodySizeReadLimit]

\* The body the six request methods share: NewRequest(method, URL), Client,
\* SetHeaders, SetOverrideFunc.
APIRequest(a, maps, method, endpoint) ==
    SetOverrideFunc(
        SetHeaders(Client(NewRequest(method, URLString(URL(a, endpoint))), a.client),
                   maps[a.defaultRequestHeaders]),
        a.defaultRequestOverrideFunc)

APIHead(a, maps, endpoint) == APIRequest(a, maps, "HEAD", endpoint)
APIGet(a, maps, endpoint) == APIRequest(a, maps, "GET", endpoint)
APIPost(a, maps, endpoint) == APIRequest(a, maps, "POST", endpoint)
APIPut(a, maps, endpoint) == APIRequest(a, maps, "PUT", endpoint)
APIPatch(a, maps, endpoint) == APIRequest(a, maps, "PATCH", endpoint)
APIDelete(a, maps, endpoint) == APIRequest(a, maps, "DELETE", endpoint)

\* Mutant of ApplyDefaultHandlers: no default handler is registered.
ApplyDefaultHandlers_None(b, handlers) == b

\* The loop of API.Do: OnStatus for every default handler.
RECURSIVE ApplyDefaultHandlers(_, _)
ApplyDefaultHandlers(b, handlers) ==
    IF DOMAIN handlers = {} THEN b
    ELSE LET status == CHOOSE s \in DOMAIN handlers : TRUE
         IN ApplyDefaultHandlers(
                OnStatus(b, status, handlers[status]),
                [s \in DOMAIN handlers \ {status} |-> handlers[s]])

\* API.Do: req.Do, then the default read limit and the default handlers.
APIDo(a, maps, b, outcome) ==
    LET done == Do(b, outcome)
    IN [done EXCEPT !.rb =
           ApplyDefaultHandlers(
               BodySizeReadLimit(done.rb, a.defaultResponseBodySizeReadLimit),
               maps[a.defaultResponseHandlers])]

\* ---------------------------------------------------------------- actions

Pending == [kind |-> "pending", err |-> NoError]

\* No API has been constructed.
NoAPI == [orig |-> <<>>, clone |-> <<>>, maps |-> <<>>, used |-> "none"]

NoCalls == [marshal |-> 0, hook |-> <<>>, request |-> 0]

NotCalled == [called |-> FALSE, req |-> <<>>, err |-> NoError]

\* A builder fresh from NewRequest, for every method and endpoint.
Init ==
    /\ pc = "request"
    /\ \E method \in Methods, endpoint \in Endpoints :
           rqb = NewRequest(method, endpoint)
    /\ sent = <<>>
    /\ calls = NoCalls
    /\ lastReq = NotCalled
    /\ rb = newResponse
    /\ stream = NoStream
    /\ invoked = <<>>
    /\ result = Pending
    /\ registered = <<>>
    /\ api = NoAPI
    /\ NoHelpers

responseVars == <<rb, stream, invoked, result>>
requestVars == <<rqb, sent, calls, lastReq>>

\* The setters of the RequestBuilder.
Configure(b) ==
    /\ pc = "request"
    /\ rqb' = b
    /\ rqb' # rqb
    /\ UNCHANGED <<pc, sent, calls, lastReq, responseVars, registered, api, helperVars>>

ClientStep == \E client \in {"http.DefaultClient", "doerSpy"} : Configure(Client(rqb, client))

SendStep == Configure(Send(rqb))

SendFormStep == Configure(SendForm(rqb))

SendJSONStep == \E obj \in {"obj", "unmarshalable"} : Configure(SendJSON(rqb, obj))

SetOverrideFuncStep ==
    \E overrideFunc \in {"ok", "fail"} : Configure(SetOverrideFunc(rqb, overrideFunc))

\* A direct call of Request().
RequestStep ==
    /\ pc = "request"
    /\ calls.request < MaxRequestCalls
    /\ LET built == Request(rqb)
       IN /\ rqb' = built.b
          /\ lastReq' = [called |-> TRUE, req |-> built.req, err |-> built.err]
          /\ calls' = [ marshal |-> calls.marshal + built.marshaled,
                        hook |-> calls.hook \o built.overrode,
                        request |-> calls.request + 1 ]
    /\ UNCHANGED <<pc, sent, responseVars, registered, api, helperVars>>

\* Do(ctx), the Doer answering one of `outcomes`.
DoStep(outcomes) ==
    /\ pc = "request"
    /\ \E outcome \in outcomes :
           LET done == Do(rqb, outcome)
           IN /\ rqb' = done.b
              /\ rb' = done.rb
              /\ stream' = done.st
              /\ sent' = sent \o done.sent
              /\ calls' = [calls EXCEPT !.marshal = @ + done.marshaled,
                                        !.hook = @ \o done.overrode]
    /\ pc' = "response"
    /\ UNCHANGED <<lastReq, invoked, result, registered, api, helperVars>>

\* The setters of the ResponseBuilder.
ConfigureResponse(b) ==
    /\ pc = "response"
    /\ rb' = b
    /\ rb' # rb
    /\ UNCHANGED <<pc, requestVars, stream, invoked, result, registered, api, helperVars>>

BodySizeReadLimitStep ==
    \E limit \in -1..MaxReadLimit : ConfigureResponse(BodySizeReadLimit(rb, limit))

OnStatusStep ==
    \E status \in Statuses, id \in HandlerIds :
        ConfigureResponse(OnStatus(rb, status, CustomHandler(id)))

SuccessOnStatusStep ==
    \E s1 \in Statuses, s2 \in Statuses :
        ConfigureResponse(SuccessOnStatus(rb, IF s1 = s2 THEN <<s1>> ELSE <<s1, s2>>))

ErrorOnStatusStep ==
    \E status \in Statuses : ConfigureResponse(ErrorOnStatus(rb, status, ErrSentinel))

\* The package's tests set builderError on a ResponseBuilder that holds a
\* response.
InjectBuilderErrorStep ==
    /\ rb.resp # <<>>
    /\ ConfigureResponse([rb EXCEPT !.builderError = ErrInjected])

\* The behaviours the handler that Error would run can show.  A custom
\* handler has a choice, and it leaves alone a body the Doer did not give;
\* the decoder of ReceiveJSON reads at least once and never closes.
HandlerBehaviours(b) ==
    IF /\ b.builderError = NoError
       /\ b.resp # <<>>
       /\ b.resp[1].StatusCode \in DOMAIN b.statusHandler
       /\ b.statusHandler[b.resp[1].StatusCode].kind = "custom"
    THEN IF b.resp[1].Body.present
         THEN Behaviours
         ELSE {beh \in Behaviours : beh.want = 0 /\ ~beh.closes}
    ELSE IF /\ b.builderError = NoError
            /\ b.resp # <<>>
            /\ b.resp[1].StatusCode \in DOMAIN b.statusHandler
            /\ b.statusHandler[b.resp[1].StatusCode].kind = "json"
    THEN {beh \in Behaviours : beh.want >= 1 /\ ~beh.closes}
    ELSE {NoBehaviour}

ErrorStep ==
    /\ pc = "response"
    /\ \E beh \in HandlerBehaviours(rb) :
           LET e == Error(rb, stream, beh)
           IN /\ rb' = e.b
              /\ stream' = e.st
              /\ invoked' = e.invoked
              /\ result' = [kind |-> e.kind, err |-> e.err]
    /\ pc' = "done"
    /\ UNCHANGED <<requestVars, registered, api, helperVars>>

\* The response side: any Doer outcome, any configuration, then Error.
Next ==
    \/ DoStep(DoerOutcomes)
    \/ BodySizeReadLimitStep
    \/ OnStatusStep
    \/ SuccessOnStatusStep
    \/ ErrorOnStatusStep
    \/ InjectBuilderErrorStep
    \/ ErrorStep

Spec == Init /\ [][Next]_vars

\* The request side: any builder configuration, Request, Do with a Doer that
\* answers a response, an error or both, then Error.
RequestDoerOutcomes ==
    {o \in DoerOutcomes :
        o.resp # <<>> => (o.resp[1].ContentLength = 0 /\ o.resp[1].bodyLen = 0)}

NextRequest ==
    \/ ClientStep
    \/ SendStep
    \/ SendFormStep
    \/ SendJSONStep
    \/ SetOverrideFuncStep
    \/ RequestStep
    \/ DoStep(RequestDoerOutcomes)
    \/ ErrorStep

SpecRequest == Init /\ [][NextRequest]_vars

\* A logged registration: the statuses it names and the handler it gives them.
Registration(statuses, handler) == [statuses |-> statuses, handler |-> handler]

\* A registration on the ResponseBuilder, logged.
Register(b, statuses, handler) ==
    /\ pc = "response"
    /\ Len(registered) < MaxRegistrations
    /\ rb' = b
    /\ registered' = Append(registered, Registration(statuses, handler))
    /\ UNCHANGED <<pc, requestVars, stream, invoked, result, api, helperVars>>

RegisterOnStatusStep ==
    \E status \in Statuses, id \in HandlerIds :
        Register(OnStatus(rb, status, CustomHandler(id)), <<status>>, CustomHandler(id))

RegisterOnStatusesStep ==
    \E s1 \in Statuses, s2 \in Statuses :
        Register(OnStatuses(rb, <<s1, s2>>, CustomHandler(1)), <<s1, s2>>, CustomHandler(1))

RegisterSuccessOnStatusStep ==
    \E s1 \in Statuses, s2 \in Statuses :
        LET statuses == IF s1 = s2 THEN <<s1>> ELSE <<s1, s2>>
        IN Register(SuccessOnStatus(rb, statuses), statuses, SuccessHandler)

RegisterErrorOnStatusStep ==
    \E status \in Statuses :
        Register(ErrorOnStatus(rb, status, ErrSentinel), <<status>>,
                 ErrorHandler(ErrSentinel))

RegisterReceiveJSONStep ==
    \E status \in Statuses :
        Register(ReceiveJSON(rb, status, 1), <<status>>, JSONHandler(1))

\* What the Doer answers in the dispatch cycle: a response with a body.
DispatchDoerOutcomes ==
    {o \in DoerOutcomes :
        /\ o.err = NoError
        /\ ~o.resp[1].BodyNil
        /\ o.resp[1].StatusCode \in {200, 418}
        /\ o.resp[1].ContentLength = 1 /\ o.resp[1].bodyLen = 1}

\* The dispatch cycle: Do, logged registrations of every kind, then Error.
NextDispatch ==
    \/ DoStep(DispatchDoerOutcomes)
    \/ RegisterOnStatusStep
    \/ RegisterOnStatusesStep
    \/ RegisterSuccessOnStatusStep
    \/ RegisterErrorOnStatusStep
    \/ RegisterReceiveJSONStep
    \/ ErrorStep

SpecDispatch == Init /\ [][NextDispatch]_vars

\* ------------------------------------------------------------ API actions

\* No RequestBuilder has been created.
NoBuilder == <<>>

\* The server addresses an API is constructed with: without and with user
\* info and a path prefix.
ServerAddresses ==
    { [Scheme |-> "http", User |-> <<>>, Host |-> "localhost", Path |-> <<>>,
       RawQuery |-> <<>>],
      [Scheme |-> "http", User |-> <<"foo:bar">>, Host |-> "localhost", Path |-> <<"/foo">>,
       RawQuery |-> <<>>] }

\* The http.Header values given to WithRequestHeaders and to SetHeaders: a
\* header name in two spellings, and a second name.
HeaderSets ==
    { ("x-id" :> <<"default">>), ("X-Id" :> <<"default">>), ("Accept" :> <<"json">>) }

APIEndpoints == {"/bar"}

\* After NewAPI(client, serverAddress).
InitAPI ==
    /\ pc = "api"
    /\ \E serverAddress \in ServerAddresses :
           LET n == NewAPI("doerSpy", serverAddress)
           IN api = [orig |-> <<n.api>>, clone |-> <<>>, maps |-> n.maps, used |-> "none"]
    /\ rqb = NoBuilder
    /\ sent = <<>>
    /\ calls = NoCalls
    /\ lastReq = NotCalled
    /\ rb = newResponse
    /\ stream = NoStream
    /\ invoked = <<>>
    /\ result = Pending
    /\ registered = <<>>
    /\ NoHelpers

\* The APIs that exist: the original and, after Clone, the clone.
Targets == IF api.clone # <<>> THEN {"orig", "clone"} ELSE {"orig"}

\* A configuration method on API t that leaves struct a and heap maps.
ConfigureAPI(t, a, maps) ==
    /\ pc = "api"
    /\ api' = [api EXCEPT ![t] = <<a>>, !.maps = maps]
    /\ api' # api
    /\ UNCHANGED <<pc, requestVars, responseVars, registered, helperVars>>

WithRequestHeadersStep ==
    \E t \in Targets, headers \in HeaderSets :
        ConfigureAPI(t, api[t][1], WithRequestHeaders(api[t][1], api.maps, headers))

WithResponseHandlerStep ==
    \E t \in Targets, status \in Statuses :
        ConfigureAPI(t, api[t][1],
                     WithResponseHandler(api[t][1], api.maps, status, SuccessHandler))

WithResponseBodySizeReadLimitStep ==
    \E t \in Targets :
        ConfigureAPI(t, WithResponseBodySizeReadLimit(api[t][1], 1), api.maps)

WithRequestOverrideFuncStep ==
    \E t \in Targets :
        ConfigureAPI(t, WithRequestOverrideFunc(api[t][1], "ok"), api.maps)

CloneStep ==
    /\ pc = "api"
    /\ api.clone = <<>>
    /\ LET c == Clone(api.orig[1], api.maps)
       IN api' = [api EXCEPT !.clone = <<c.api>>, !.maps = c.maps]
    /\ UNCHANGED <<pc, requestVars, responseVars, registered, helperVars>>

\* The request method of the API for an HTTP method.
APIMethod(method, a, maps, endpoint) ==
    CASE method = "HEAD" -> APIHead(a, maps, endpoint)
      [] method = "GET" -> APIGet(a, maps, endpoint)
      [] method = "POST" -> APIPost(a, maps, endpoint)
      [] method = "PUT" -> APIPut(a, maps, endpoint)
      [] method = "PATCH" -> APIPatch(a, maps, endpoint)
      [] method = "DELETE" -> APIDelete(a, maps, endpoint)

\* api.Head / Get / Post / Put / Patch / Delete (endpoint) on API t.
APIMethodStep ==
    /\ pc = "api"
    /\ \E t \in Targets, method \in APIMethods, endpoint \in APIEndpoints :
           /\ rqb' = APIMethod(method, api[t][1], api.maps, endpoint)
           /\ api' = [api EXCEPT !.used = t]
    /\ pc' = "request"
    /\ UNCHANGED <<sent, calls, lastReq, responseVars, registered, helperVars>>

\* SetHeader(key, "request") by the caller, in either spelling of the name.
SetHeaderStep ==
    \E key \in {"x-id", "X-Id"} : Configure(SetHeader(rqb, key, <<"request">>))

\* What the Doer answers in the API cycle.
APIDoerOutcomes ==
    {o \in RequestDoerOutcomes :
        o.resp # <<>> => (o.err = NoError /\ ~o.resp[1].BodyNil)}

\* api.Do(ctx, req) with the API the builder came from.
APIDoStep ==
    /\ pc = "request"
    /\ api.used # "none"
    /\ \E outcome \in APIDoerOutcomes :
           LET done == APIDo(api[api.used][1], api.maps, rqb, outcome)
           IN /\ rqb' = done.b
              /\ rb' = done.rb
              /\ stream' = done.st
              /\ sent' = sent \o done.sent
              /\ calls' = [calls EXCEPT !.marshal = @ + done.marshaled,
                                        !.hook = @ \o done.overrode]
    /\ pc' = "response"
    /\ UNCHANGED <<lastReq, invoked, result, registered, api, helperVars>>

\* An API is configured, a builder is taken from it, the caller sets a
\* header, api.Do runs, the caller registers handlers, Error resolves.
NextAPI ==
    \/ WithRequestHeadersStep
    \/ WithResponseHandlerStep
    \/ WithResponseBodySizeReadLimitStep
    \/ WithRequestOverrideFuncStep
    \/ APIMethodStep
    \/ SetHeaderStep
    \/ APIDoStep
    \/ ErrorOnStatusStep
    \/ ErrorStep

SpecAPI == InitAPI /\ [][NextAPI]_vars

\* An API and its clone are configured.
NextAPIConfig ==
    \/ WithRequestHeadersStep
    \/ WithResponseHandlerStep
    \/ WithResponseBodySizeReadLimitStep
    \/ WithRequestOverrideFuncStep
    \/ CloneStep

SpecAPIConfig == InitAPI /\ [][NextAPIConfig]_vars

\* ---------------------------------------------------------- header actions

\* A header setter that leaves builder b, within the bound on values.
ConfigureHeader(b) ==
    /\ \A k \in DOMAIN b.header : Len(b.header[k]) <= MaxHeaderValues
    /\ Configure(b)

SetHeaderValueStep ==
    \E key \in {"x-id", "X-Id"} : ConfigureHeader(SetHeader(rqb, key, <<"request">>))

SetHeadersStep == \E header \in HeaderSets : ConfigureHeader(SetHeaders(rqb, header))

AddHeaderStep ==
    \E key \in {"x-id", "X-Id"} : ConfigureHeader(AddHeader(rqb, key, <<"added">>))

AddHeadersStep == \E header \in HeaderSets : ConfigureHeader(AddHeaders(rqb, header))

\* The headers of a RequestBuilder: the four setters, then Request.
NextHeaders ==
    \/ SetHeaderValueStep
    \/ SetHeadersStep
    \/ AddHeaderStep
    \/ AddHeadersStep
    \/ RequestStep

SpecHeaders == Init /\ [][NextHeaders]_vars

\* The whole cycle: a body to marshal and an override hook on the request,
\* Do, handlers registered on the ResponseBuilder, then Error.
NextCycle ==
    \/ SendJSONStep
    \/ SetOverrideFuncStep
    \/ DoStep(RequestDoerOutcomes)
    \/ OnStatusStep
    \/ ErrorOnStatusStep
    \/ ErrorStep

SpecCycle == Init /\ [][NextCycle]_vars

\* ----------------------------------------------------------- ParsePostForm

ErrMissingFormBody == NewError("missing form body")
ErrQuery == NewError("invalid semicolon separator in query")
ErrRead == NewError("read failed")

FormMethods == {"POST", "PUT", "PATCH", "DELETE", "GET"}

\* The pieces an url-encoded text is made of: key=value pairs, and a piece
\* url.ParseQuery rejects (";").
FormPairs ==
    { [k |-> "foo", v |-> "bar", ok |-> TRUE],
      [k |-> "baz", v |-> "1", ok |-> TRUE],
      [k |-> ";", v |-> "", ok |-> FALSE] }

\* A map is nil (<<>>) or holds a function (<<m>>); the empty map is <<<<>>>>.
Nil == <<>>
EmptyValues == <<>>

\* url.Values.Add / copyValues: the values of src appended to those of dst.
MergeValues(dst, src) ==
    [k \in DOMAIN dst \cup DOMAIN src |->
        (IF k \in DOMAIN dst THEN dst[k] ELSE <<>>)
            \o (IF k \in DOMAIN src THEN src[k] ELSE <<>>)]

\* url.ParseQuery(text): the values of the well-formed pairs in order, and
\* an error when a piece is malformed.
RECURSIVE ParseQueryValues(_)
ParseQueryValues(text) ==
    IF text = <<>>
    THEN EmptyValues
    ELSE LET piece == Head(text)
             rest == ParseQueryValues(Tail(text))
         IN IF piece.ok
            THEN MergeValues((piece.k :> <<piece.v>>), rest)
            ELSE rest

ParseQuery(text) ==
    [ values |-> ParseQueryValues(text),
      err |-> IF \E i \in 1..Len(text) : ~text[i].ok THEN ErrQuery ELSE NoError ]

\* io.ReadAll(req.Body) on a non-nil body: what is left of the stream is
\* delivered and the stream is drained, or the read fails.
ReadAllRequestBody(body) ==
    IF body.fails
    THEN [data |-> <<>>, err |-> ErrRead, body |-> body]
    ELSE [data |-> body.data, err |-> NoError, body |-> [body EXCEPT !.data = <<>>]]

\* net/http parsePostForm(r): [vs, err, body].
parsePostForm(req) ==
    IF req.Body = Nil
    THEN [vs |-> Nil, err |-> ErrMissingFormBody, body |-> req.Body]
    ELSE IF req.ContentType = "application/x-www-form-urlencoded"
         THEN LET read == ReadAllRequestBody(req.Body[1])
                  parsed == ParseQuery(read.data)
              IN IF read.err # NoError
                 THEN [vs |-> Nil, err |-> read.err, body |-> <<read.body>>]
                 ELSE [vs |-> <<parsed.values>>, err |-> parsed.err,
                       body |-> <<read.body>>]
         ELSE [vs |-> Nil, err |-> NoError, body |-> req.Body]

\* req.ParseForm(): fills PostForm (never left nil) and Form.
ParseForm(req) ==
    LET post == IF req.PostForm = Nil /\ req.Method \in {"POST", "PUT", "PATCH"}
                THEN parsePostForm(req)
                ELSE [vs |-> req.PostForm, err |-> NoError, body |-> req.Body]
        postForm == IF post.vs = Nil THEN <<EmptyValues>> ELSE post.vs
        query == ParseQuery(req.RawQuery)
        err == IF post.err # NoError THEN post.err ELSE query.err
    IN IF req.Form # Nil
       THEN [req |-> [req EXCEPT !.PostForm = postForm, !.Body = post.body],
             err |-> post.err]
       ELSE [req |-> [req EXCEPT !.PostForm = postForm, !.Body = post.body,
                                 !.Form = <<MergeValues(postForm[1], query.values)>>],
             err |-> err]

\* Mutant of AlreadyParsed: the form is parsed on every call.
AlreadyParsed_Never(req) == FALSE

\* req.PostForm != nil
AlreadyParsed(req) == req.PostForm # Nil

FormResult(req, err, panic) == [req |-> req, err |-> err, panic |-> panic]

\* ParsePostForm(req)
ParsePostForm(req) ==
    IF AlreadyParsed(req)
    THEN FormResult(req, NoError, FALSE)
    ELSE LET parsed == ParseForm(req)
         IN IF parsed.err # NoError
            THEN FormResult(parsed.req,
                            Wrap(Layer("unable to parse body as form", "", "", <<>>),
                                 parsed.err),
                            FALSE)
            ELSE IF req.Method \in {"POST", "PUT", "PATCH"}
            THEN FormResult(parsed.req, NoError, FALSE)
            ELSE IF parsed.req.Body = Nil
            THEN FormResult(parsed.req, NoError, TRUE)
            ELSE LET read == ReadAllRequestBody(parsed.req.Body[1])
                     drained == [parsed.req EXCEPT !.Body = <<read.body>>]
                     values == ParseQuery(read.data)
                 IN IF read.err # NoError
                    THEN FormResult(drained,
                                    Wrap(Layer("unable to read body", "", "", <<>>),
                                         read.err),
                                    FALSE)
                    ELSE IF values.err # NoError
                    THEN FormResult(drained,
                                    Wrap(Layer("unable to parse form values from body",
                                               "", "", <<>>),
                                         values.err),
                                    FALSE)
                    ELSE FormResult([drained EXCEPT !.PostForm = <<values.values>>],
                                    NoError, FALSE)

\* The url-encoded texts of at most n pieces.
FormTexts(n) == UNION {[1..len -> FormPairs] : len \in 0..n}

\* The requests ParsePostForm is given: any method, no body or a body stream
\* that reads or fails, a content type, a query string, PostForm nil or
\* already populated.
FormRequests ==
    [ Method : FormMethods,
      Body : {Nil} \cup {<<[data |-> data, fails |-> fails]>> :
                             data \in FormTexts(MaxFormPairs), fails \in BOOLEAN},
      ContentType : {"application/x-www-form-urlencoded", "application/json", ""},
      RawQuery : {<<>>, <<[k |-> "q", v |-> "1", ok |-> TRUE]>>,
                  <<[k |-> ";", v |-> "", ok |-> FALSE]>>},
      PostForm : {Nil, <<("foo" :> <<"preset">>)>>},
      Form : {Nil} ]

\* All other variables stay at the values of a fresh builder.
NoCycle ==
    /\ rqb = NoBuilder
    /\ sent = <<>>
    /\ calls = NoCalls
    /\ lastReq = NotCalled
    /\ rb = newResponse
    /\ stream = NoStream
    /\ invoked = <<>>
    /\ result = Pending
    /\ registered = <<>>
    /\ api = NoAPI

InitForm ==
    /\ pc = "form"
    /\ \E req \in FormRequests : form = [req |-> req, returned |-> <<>>]
    /\ conc = <<>>
    /\ stub = <<>>
    /\ spy = <<>>
    /\ srv = <<>>
    /\ NoCycle

\* One call of ParsePostForm(req); what it returned is logged with the
\* PostForm it left.
ParsePostFormStep ==
    /\ pc = "form"
    /\ Len(form.returned) < MaxParseCalls
    /\ LET done == ParsePostForm(form.req)
       IN form' = [ req |-> done.req,
                    returned |-> Append(form.returned,
                                        [ err |-> done.err, panic |-> done.panic,
                                          PostForm |-> done.req.PostForm ]) ]
    /\ UNCHANGED <<pc, requestVars, responseVars, registered, api, conc, stub, spy, srv>>

NextForm == ParsePostFormStep

SpecForm == InitForm /\ [][NextForm]_vars

\* ------------------------------------------------------------- URL actions

\* The keys of the model's query parameters, as sort.Strings orders them.
QueryKeyOrder == <<"bar", "baz", "foo", "foobar">>

\* b.url.Query(): the values of the well-formed pieces of RawQuery.
Query(u) == ParseQueryValues(u.RawQuery)

\* url.Values.Encode(): the keys sorted, each with its values in order.
RECURSIVE EncodeKeys(_, _)
EncodeKeys(values, keys) ==
    IF keys = <<>> THEN <<>>
    ELSE LET key == Head(keys)
         IN (IF key \in DOMAIN values
             THEN [i \in 1..Len(values[key]) |->
                      [k |-> key, v |-> values[key][i], ok |-> TRUE]]
             ELSE <<>>)
                \o EncodeKeys(values, Tail(keys))

\* The keys in sorted order: those of QueryKeyOrder first; a key outside the
\* model's keys comes after them.
RECURSIVE SortedKeys(_, _)
SortedKeys(keys, order) ==
    IF keys = {} THEN <<>>
    ELSE IF order # <<>>
    THEN (IF Head(order) \in keys THEN <<Head(order)>> ELSE <<>>)
             \o SortedKeys(keys \ {Head(order)}, Tail(order))
    ELSE LET key == CHOOSE k \in keys : TRUE
         IN <<key>> \o SortedKeys(keys \ {key}, order)

Encode(values) == EncodeKeys(values, SortedKeys(DOMAIN values, QueryKeyOrder))

\* SetQueryParam: query[key] = values, then RawQuery = query.Encode().
SetQueryParam(b, key, values) ==
    [b EXCEPT !.url.RawQuery = Encode((key :> values) @@ Query(b.url))]

\* SetQueryParams: query[key] = values for each given key.
SetQueryParams(b, params) ==
    [b EXCEPT !.url.RawQuery = Encode(params @@ Query(b.url))]

\* AddQueryParam: query.Add(key, value) for each value.
AddQueryParam(b, key, values) ==
    [b EXCEPT !.url.RawQuery = Encode(MergeValues(Query(b.url), (key :> values)))]

\* AddQueryParams: query.Add(key, value) for each value of each given key.
AddQueryParams(b, params) ==
    [b EXCEPT !.url.RawQuery = Encode(MergeValues(Query(b.url), params))]

\* strings.ReplaceAll(path, pattern, replaceWith): every piece that is the
\* pattern becomes replaceWith.
ReplaceAll(path, pattern, replaceWith) ==
    [i \in DOMAIN path |-> IF path[i] = pattern THEN replaceWith ELSE path[i]]

\* PathReplacer: the pattern's occurrences in the path replaced.
PathReplacer(b, pattern, replaceWith) ==
    [b EXCEPT !.url.Path = ReplaceAll(@, pattern, replaceWith)]

\* Endpoints with a pattern in the path and with a query.
URLEndpoints ==
    { "http://localhost", "http://localhost/{userID}",
      "http://localhost?foo=1&bar=2", "\\:/\\" }

QueryParamSets == { ("foo" :> <<"bar">>), ("bar" :> <<"a b">>) @@ ("foo" :> <<"bar">>) }

\* After NewRequest(method, endpoint).
InitURL ==
    /\ pc = "request"
    /\ \E method \in Methods, endpoint \in URLEndpoints :
           rqb = NewRequest(method, endpoint)
    /\ sent = <<>>
    /\ calls = NoCalls
    /\ lastReq = NotCalled
    /\ rb = newResponse
    /\ stream = NoStream
    /\ invoked = <<>>
    /\ result = Pending
    /\ registered = <<>>
    /\ api = NoAPI
    /\ NoHelpers

\* A URL setter that leaves builder b, within the bound on values.
ConfigureURL(b) ==
    /\ \A k \in DOMAIN Query(b.url) : Len(Query(b.url)[k]) <= MaxQueryValues
    /\ Configure(b)

SetQueryParamStep ==
    \E key \in {"foo", "bar"}, value \in {"bar", "a b"} :
        ConfigureURL(SetQueryParam(rqb, key, <<value>>))

SetQueryParamsStep ==
    \E params \in QueryParamSets : ConfigureURL(SetQueryParams(rqb, params))

AddQueryParamStep ==
    \E key \in {"foo", "bar"}, value \in {"bar", "a b"} :
        ConfigureURL(AddQueryParam(rqb, key, <<value>>))

AddQueryParamsStep ==
    \E params \in QueryParamSets : ConfigureURL(AddQueryParams(rqb, params))

PathReplacerStep ==
    \E pattern \in {"{userID}", "{none}"} : ConfigureURL(PathReplacer(rqb, pattern, "42"))

\* The URL of a RequestBuilder: the five setters, then Request.
NextURL ==
    \/ SetQueryParamStep
    \/ SetQueryParamsStep
    \/ AddQueryParamStep
    \/ AddQueryParamsStep
    \/ PathReplacerStep
    \/ RequestStep

SpecURL == InitURL /\ [][NextURL]_vars

\* ---------------------------------------------------------------- DoerStub

ErrBoom == NewError("boom")
ErrNotConfigured == NewError("http doer not configured for this call")
ErrDoesNotMatch == NewError("request does not match")

StubMethods == {"GET", "POST"}

\* RequestMatcherBuilder.Method(method).MatchRequest(req); a matcher is nil
\* (<<>>) or <<method>>.
MatchRequest(matcher, req) ==
    IF req # matcher[1] THEN NewError("request method != ") ELSE NoError

\* A slice: a backing array of the heap and a length (the offset is 0).
Slice(arr, len) == [arr |-> arr, len |-> len]

\* The elements of slice s, the heap being arrays.
Contents(arrays, s) == SubSeq(arrays[s.arr], 1, s.len)

\* Mutant of NewDoerStub: the stub keeps the caller's slice.
NewDoerStub_KeepsSlice(arrays, given, strictOrder) ==
    [ arrays |-> arrays,
      d |-> [m |-> 0, strictOrder |-> strictOrder, calls |-> given] ]

\* NewDoerStub(calls, strictOrder): the calls are copied into a new array.
NewDoerStub(arrays, given, strictOrder) ==
    [ arrays |-> Append(arrays, Contents(arrays, given)),
      d |-> [ m |-> 0, strictOrder |-> strictOrder,
              calls |-> Slice(Len(arrays) + 1, given.len) ] ]

\* Mutant of StrictReject: a rejected call is skipped in strict order too.
StrictReject_Never(strictOrder) == FALSE

\* if d.strictOrder { return nil, "request does not match" }
StrictReject(strictOrder) == strictOrder

\* The loop of Do over d.calls from index i on: [idx, err], idx = 0 when no
\* call was selected.
RECURSIVE FindCall(_, _, _, _)
FindCall(list, i, req, strictOrder) ==
    IF i > Len(list)
    THEN [idx |-> 0, err |-> ErrNotConfigured]
    ELSE IF list[i].Matcher = <<>>
    THEN [idx |-> i, err |-> NoError]
    ELSE IF MatchRequest(list[i].Matcher, req) # NoError
    THEN IF StrictReject(strictOrder)
         THEN [idx |-> 0, err |-> ErrDoesNotMatch]
         ELSE FindCall(list, i + 1, req, strictOrder)
    ELSE [idx |-> i, err |-> NoError]

\* Mutant of RemoveAt: the last element is moved to place idx.
RemoveAt_SwapLast(array, len, idx) ==
    [ array |-> [array EXCEPT ![idx] = array[len]], len |-> len - 1 ]

\* append(d.calls[:idx], d.calls[idx+1:]...): the elements behind idx move
\* one place down inside the backing array, whose last used place keeps its
\* old element; the slice gets one shorter.
RemoveAt(array, len, idx) ==
    [ array |-> [i \in 1..Len(array) |->
                    IF i >= idx /\ i < len THEN array[i + 1] ELSE array[i]],
      len |-> len - 1 ]

\* Mutant of MutexFree: Lock never waits.
MutexFree_Always(m) == TRUE

\* d.m.Lock() goes through when no goroutine holds the mutex.
MutexFree(m) == m = 0

Doers == 1..MaxDoers

\* A goroutine outside Do.
Idle == [pc |-> "idle", req |-> "", idx |-> 0, before |-> <<>>, err |-> NoError, call |-> <<>>]

\* The DoerStubCall values a test configures: the i-th has Response i.
StubCalls(i) ==
    [ Matcher : {<<>>} \cup {<<method>> : method \in StubMethods},
      Response : {i},
      Error : {IF i = 2 THEN ErrBoom ELSE NoError} ]

StubCallLists ==
    UNION { {list \in [1..len -> UNION {StubCalls(i) : i \in 1..len}] :
                \A i \in 1..len : list[i].Response = i} : len \in 0..MaxStubCalls }

\* After NewDoerStub(calls, strictOrder): array 1 is the caller's.
InitStub ==
    /\ pc = "stub"
    /\ \E list \in StubCallLists, strictOrder \in BOOLEAN :
           LET n == NewDoerStub(<<list>>, Slice(1, Len(list)), strictOrder)
           IN stub = [ arrays |-> n.arrays,
                       d |-> n.d,
                       given |-> list,
                       snapshots |-> <<>>,
                       g |-> [g \in Doers |-> Idle],
                       started |-> 0,
                       returned |-> <<>> ]
    /\ conc = <<>>
    /\ form = <<>>
    /\ spy = <<>>
    /\ srv = <<>>
    /\ NoCycle

stubFrame == <<pc, requestVars, responseVars, registered, api, conc, form, spy, srv>>

\* Goroutine g enters Do(req) and takes the mutex (doer_stub.go:53).
StubLockStep ==
    /\ pc = "stub"
    /\ stub.started < MaxDoCalls
    /\ MutexFree(stub.d.m)
    /\ \E g \in Doers, req \in StubMethods :
           /\ stub.g[g].pc = "idle"
           /\ stub' = [stub EXCEPT !.d.m = g, !.started = @ + 1,
                                   !.g[g] = [Idle EXCEPT !.pc = "locked", !.req = req]]
    /\ UNCHANGED stubFrame

\* The loop over d.calls (doer_stub.go:56-78).
StubFindStep ==
    /\ pc = "stub"
    /\ \E g \in Doers :
           /\ stub.g[g].pc = "locked"
           /\ LET list == Contents(stub.arrays, stub.d.calls)
                  found == FindCall(list, 1, stub.g[g].req, stub.d.strictOrder)
              IN stub' = [stub EXCEPT !.g[g].pc = IF found.idx = 0 THEN "failed" ELSE "found",
                                      !.g[g].idx = found.idx,
                                      !.g[g].before = list,
                                      !.g[g].err = found.err]
    /\ UNCHANGED stubFrame

\* call := d.calls[idx] (doer_stub.go:80).
StubTakeStep ==
    /\ pc = "stub"
    /\ \E g \in Doers :
           /\ stub.g[g].pc = "found"
           /\ LET idx == stub.g[g].idx
                  s == stub.d.calls
              IN IF idx > s.len
                 THEN stub' = [stub EXCEPT !.g[g].pc = "panicked"]
                 ELSE stub' = [stub EXCEPT !.g[g].pc = "taken",
                                           !.g[g].call = <<stub.arrays[s.arr][idx]>>]
    /\ UNCHANGED stubFrame

\* d.calls = append(d.calls[:idx], d.calls[idx+1:]...) (doer_stub.go:81).
StubRemoveStep ==
    /\ pc = "stub"
    /\ \E g \in Doers :
           /\ stub.g[g].pc = "taken"
           /\ LET idx == stub.g[g].idx
                  s == stub.d.calls
              IN IF idx > s.len
                 THEN stub' = [stub EXCEPT !.g[g].pc = "panicked"]
                 ELSE LET removed == RemoveAt(stub.arrays[s.arr], s.len, idx)
                      IN stub' = [stub EXCEPT
                                    !.arrays[s.arr] = removed.array,
                                    !.d.calls = Slice(s.arr, removed.len),
                                    !.g[g].pc = "removed"]
    /\ UNCHANGED stubFrame

\* The deferred Unlock and the return of Do (doer_stub.go:54, 66, 77, 83).
StubReturnStep ==
    /\ pc = "stub"
    /\ \E g \in Doers :
           /\ stub.g[g].pc \in {"failed", "removed"}
           /\ LET me == stub.g[g]
                  call == me.call
              IN stub' = [stub EXCEPT
                            !.d.m = 0,
                            !.g[g] = Idle,
                            !.returned = Append(@,
                                [ g |-> g, req |-> me.req, strictOrder |-> stub.d.strictOrder,
                                  before |-> me.before,
                                  after |-> Contents(stub.arrays, stub.d.calls),
                                  call |-> call,
                                  resp |-> IF call = <<>> THEN <<>> ELSE <<call[1].Response>>,
                                  err |-> IF call = <<>> THEN me.err ELSE call[1].Error ])]
    /\ UNCHANGED stubFrame

\* RemainingCalls(): a copy of d.calls in a new array (doer_stub.go:90-97).
RemainingCallsStep ==
    /\ pc = "stub"
    /\ Len(stub.snapshots) < MaxSnapshots
    /\ MutexFree(stub.d.m)
    /\ LET copy == Contents(stub.arrays, stub.d.calls)
       IN stub' = [stub EXCEPT
                     !.arrays = Append(@, copy),
                     !.snapshots = Append(@, [ s |-> Slice(Len(stub.arrays) + 1, Len(copy)),
                                               was |-> copy ])]
    /\ UNCHANGED stubFrame

NextStub ==
    \/ StubLockStep
    \/ StubFindStep
    \/ StubTakeStep
    \/ StubRemoveStep
    \/ StubReturnStep
    \/ RemainingCallsStep

SpecStub == InitStub /\ [][NextStub]_vars

\* ----------------------------------------------------------------- DoerSpy

\* What the wrapped Doer answers: a response, or an error.
SpyOutcomes == { [resp |-> <<200>>, err |-> NoError], [resp |-> <<>>, err |-> ErrDoer] }

\* DoerSpyRecord{InputRequest, OutputResponse, OutputError}; the request
\* pointer is the number of the Do call.
DoerSpyRecord(req, resp, err) ==
    [InputRequest |-> req, OutputResponse |-> resp, OutputError |-> err]

\* Mutant of ClearCalls: the history is kept.
ClearCalls_Keep(history) == history

\* d.calls = nil
ClearCalls(history) == <<>>

\* After NewDoerSpy(doer).
InitSpy ==
    /\ pc = "spy"
    /\ spy = [ m |-> 0,
               calls |-> <<>>,
               g |-> [g \in Doers |-> [pc |-> "idle", rec |-> <<>>]],
               reader |-> [pc |-> "idle", copy |-> <<>>],
               started |-> 0,
               recorded |-> <<>>,
               completed |-> <<>>,
               results |-> <<>> ]
    /\ conc = <<>>
    /\ form = <<>>
    /\ stub = <<>>
    /\ srv = <<>>
    /\ NoCycle

spyFrame == <<pc, requestVars, responseVars, registered, api, conc, form, stub, srv>>

\* resp, err := d.doer.Do(req), outside the mutex (doer_spy.go:30).
SpyForwardStep ==
    /\ pc = "spy"
    /\ spy.started < MaxDoCalls
    /\ \E g \in Doers, o \in SpyOutcomes :
           /\ spy.g[g].pc = "idle"
           /\ spy' = [spy EXCEPT
                        !.started = @ + 1,
                        !.g[g] = [ pc |-> "forwarded",
                                   rec |-> <<DoerSpyRecord(spy.started + 1, o.resp, o.err)>> ]]
    /\ UNCHANGED spyFrame

\* d.m.Lock() in Do (doer_spy.go:31); the mutex holder is g, the reader is -1.
SpyLockStep ==
    /\ pc = "spy"
    /\ MutexFree(spy.m)
    /\ \E g \in Doers :
           /\ spy.g[g].pc = "forwarded"
           /\ spy' = [spy EXCEPT !.m = g, !.g[g].pc = "locked"]
    /\ UNCHANGED spyFrame

\* d.calls = append(d.calls, DoerSpyRecord{...}) (doer_spy.go:32-36).
SpyAppendStep ==
    /\ pc = "spy"
    /\ \E g \in Doers :
           /\ spy.g[g].pc = "locked"
           /\ spy' = [spy EXCEPT !.calls = @ \o spy.g[g].rec,
                                 !.recorded = @ \o spy.g[g].rec,
                                 !.g[g].pc = "appended"]
    /\ UNCHANGED spyFrame

\* d.m.Unlock(); return resp, err (doer_spy.go:37-38).
SpyReturnStep ==
    /\ pc = "spy"
    /\ \E g \in Doers :
           /\ spy.g[g].pc = "appended"
           /\ spy' = [spy EXCEPT !.m = 0,
                                 !.completed = @ \o spy.g[g].rec,
                                 !.g[g] = [pc |-> "idle", rec |-> <<>>]]
    /\ UNCHANGED spyFrame

\* d.m.Lock() in Calls (doer_spy.go:46).
CallsLockStep ==
    /\ pc = "spy"
    /\ Len(spy.results) < MaxSpyReads
    /\ spy.reader.pc = "idle"
    /\ MutexFree(spy.m)
    /\ spy' = [spy EXCEPT !.m = -1, !.reader.pc = "locked"]
    /\ UNCHANGED spyFrame

\* calls := make(...); copy(calls, d.calls) (doer_spy.go:49-50).
CallsCopyStep ==
    /\ pc = "spy"
    /\ spy.reader.pc = "locked"
    /\ spy' = [spy EXCEPT !.reader = [pc |-> "copied", copy |-> spy.calls]]
    /\ UNCHANGED spyFrame

\* d.calls = nil (doer_spy.go:51).
CallsClearStep ==
    /\ pc = "spy"
    /\ spy.reader.pc = "copied"
    /\ spy' = [spy EXCEPT !.calls = ClearCalls(@), !.reader.pc = "cleared"]
    /\ UNCHANGED spyFrame

\* The deferred Unlock and return calls (doer_spy.go:47, 53).
CallsReturnStep ==
    /\ pc = "spy"
    /\ spy.reader.pc = "cleared"
    /\ spy' = [spy EXCEPT !.m = 0,
                          !.results = Append(@, spy.reader.copy),
                          !.reader = [pc |-> "idle", copy |-> <<>>]]
    /\ UNCHANGED spyFrame

NextSpy ==
    \/ SpyForwardStep
    \/ SpyLockStep
    \/ SpyAppendStep
    \/ SpyReturnStep
    \/ CallsLockStep
    \/ CallsCopyStep
    \/ CallsClearStep
    \/ CallsReturnStep

SpecSpy == InitSpy /\ [][NextSpy]_vars

\* ------------------------------------------------------- finalize actions

\* The builders Request() is called on, with fields set as the package's
\* tests set them: any combination of captured error, bodies, marshaler,
\* method and override hook.
FinalizeBuilders ==
    { [NewRequest(method, endpoint) EXCEPT
           !.client = "doerSpy", !.body = body, !.bodyToMarshal = obj,
           !.bodyMarshaler = marshaler, !.overrideFunc = overrideFunc] :
        method \in Methods, endpoint \in Endpoints, body \in {"nil", "reader"},
        obj \in {"nil", "obj", "unmarshalable"},
        marshaler \in {"nil", "json.Marshal"},
        overrideFunc \in {"nil", "ok", "fail"} }

InitFinalize ==
    /\ pc = "request"
    /\ rqb \in FinalizeBuilders
    /\ sent = <<>>
    /\ calls = NoCalls
    /\ lastReq = NotCalled
    /\ rb = newResponse
    /\ stream = NoStream
    /\ invoked = <<>>
    /\ result = Pending
    /\ registered = <<>>
    /\ api = NoAPI
    /\ NoHelpers

\* Request() called on the builder after Do returned.
RequestAfterDoStep ==
    /\ pc = "response"
    /\ calls.request < MaxRequestCalls
    /\ LET built == Request(rqb)
       IN /\ rqb' = built.b
          /\ lastReq' = [called |-> TRUE, req |-> built.req, err |-> built.err]
          /\ calls' = [ marshal |-> calls.marshal + built.marshaled,
                        hook |-> calls.hook \o built.overrode,
                        request |-> calls.request + 1 ]
    /\ UNCHANGED <<pc, sent, responseVars, registered, api, helperVars>>

NextFinalize ==
    \/ RequestStep
    \/ DoStep(RequestDoerOutcomes)
    \/ RequestAfterDoStep

SpecFinalize == InitFinalize /\ [][NextFinalize]_vars

\* ------------------------------------------------------------------ Server

\* make(chan error, 1)
ChannelCapacity == 1

ErrDoFailed == NewError("doer execution failed")
ErrUnableToWrite == NewError("unable to write response")

\* What the handler sends on cerr (server.go:56-66).
HandlerResult(matches, written) ==
    IF ~matches THEN ErrDoesNotMatch
    ELSE IF ~written THEN ErrUnableToWrite
    ELSE NoError

\* AssertRequest has made the channel, started the server and calls do.
InitServer ==
    /\ pc = "server"
    /\ srv = [ main |-> "do",
               ret |-> <<>>,
               handlers |-> <<>>,
               cerr |-> <<>>,
               closed |-> FALSE ]
    /\ conc = <<>>
    /\ form = <<>>
    /\ stub = <<>>
    /\ spy = <<>>
    /\ NoCycle

serverFrame == <<pc, requestVars, responseVars, registered, api, conc, form, stub, spy>>

\* The do function sends a request: the server starts a handler goroutine.
SendRequestStep ==
    /\ pc = "server"
    /\ srv.main = "do"
    /\ Len(srv.handlers) < MaxServerRequests
    /\ srv' = [srv EXCEPT !.handlers = Append(@, [pc |-> "started", val |-> NoError])]
    /\ UNCHANGED serverFrame

\* Handler h matches the request and writes the response (server.go:56-66).
HandlerRunStep(h) ==
    /\ pc = "server"
    /\ srv.handlers[h].pc = "started"
    /\ \E matches, written \in BOOLEAN :
           srv' = [srv EXCEPT !.handlers[h] =
                       [pc |-> "sending", val |-> HandlerResult(matches, written)]]
    /\ UNCHANGED serverFrame

\* cerr <- ...: waits while the buffer is full, panics on a closed channel.
HandlerSendStep(h) ==
    /\ pc = "server"
    /\ srv.handlers[h].pc = "sending"
    /\ IF srv.closed
       THEN srv' = [srv EXCEPT !.handlers[h].pc = "panicked"]
       ELSE /\ Len(srv.cerr) < ChannelCapacity
            /\ srv' = [srv EXCEPT !.cerr = Append(@, srv.handlers[h].val),
                                  !.handlers[h].pc = "done"]
    /\ UNCHANGED serverFrame

\* do returns nil or an error (server.go:75-77).
DoReturnStep ==
    /\ pc = "server"
    /\ srv.main = "do"
    /\ \E failed \in BOOLEAN :
           srv' = IF failed
                  THEN [srv EXCEPT !.main = "closing", !.ret = <<ErrDoFailed>>]
                  ELSE [srv EXCEPT !.main = "receiving"]
    /\ UNCHANGED serverFrame

\* return <-cerr (server.go:79): waits for a value.
ReceiveStep ==
    /\ pc = "server"
    /\ srv.main = "receiving"
    /\ srv.cerr # <<>>
    /\ srv' = [srv EXCEPT !.main = "closing", !.ret = <<Head(srv.cerr)>>,
                          !.cerr = Tail(@)]
    /\ UNCHANGED serverFrame

\* The deferred httpServer.Close() (server.go:68): waits until every
\* outstanding request has completed.
ServerCloseStep ==
    /\ pc = "server"
    /\ srv.main = "closing"
    /\ \A h \in 1..Len(srv.handlers) : srv.handlers[h].pc \in {"done", "panicked"}
    /\ srv' = [srv EXCEPT !.main = "closed"]
    /\ UNCHANGED serverFrame

\* The deferred close(cerr) (server.go:53), then AssertRequest returns.
CloseChannelStep ==
    /\ pc = "server"
    /\ srv.main = "closed"
    /\ srv' = [srv EXCEPT !.main = "returned", !.closed = TRUE]
    /\ UNCHANGED serverFrame

\* A step of one of the handler goroutines.
HandlerStep ==
    \E h \in 1..Len(srv.handlers) : HandlerRunStep(h) \/ HandlerSendStep(h)

NextServer ==
    \/ SendRequestStep
    \/ HandlerStep
    \/ DoReturnStep
    \/ ReceiveStep
    \/ ServerCloseStep
    \/ CloseChannelStep

\* Every goroutine that can run does run, and do returns.
SpecServer ==
    /\ InitServer
    /\ [][NextServer]_vars
    /\ WF_vars(HandlerStep)
    /\ WF_vars(DoReturnStep)
    /\ WF_vars(ReceiveStep)
    /\ WF_vars(ServerCloseStep)
    /\ WF_vars(CloseChannelStep)

\* ------------------------------------------- request cycles on a shared API

\* A []string is a Slice over the heap of backing arrays; the nil slice has
\* no array.  The slots of an array past a slice's length are its spare
\* capacity.
NilSlice == Slice(0, 0)

Cap(arrays, s) == IF s.arr = 0 THEN 0 ELSE Len(arrays[s.arr])

SliceContents(arrays, s) == IF s.arr = 0 THEN <<>> ELSE Contents(arrays, s)

\* The capacity append allocates when the old one does not suffice: the
\* length needed when that is more than twice the old capacity, else twice
\* the old capacity.
GrownCap(oldCap, needed) == IF needed > 2 * oldCap THEN needed ELSE 2 * oldCap

\* append(s, values...): [arrays, s].  With spare capacity the values are
\* written into the array of s; without, into a new array.
AppendValues(arrays, s, values) ==
    LET needed == s.len + Len(values)
    IN IF needed <= Cap(arrays, s)
       THEN [ arrays |-> [arrays EXCEPT ![s.arr] =
                             [i \in 1..Len(@) |->
                                 IF i > s.len /\ i <= needed
                                 THEN values[i - s.len] ELSE @[i]]],
              s |-> Slice(s.arr, needed) ]
       ELSE LET newCap == GrownCap(Cap(arrays, s), needed)
                old == SliceContents(arrays, s)
            IN [ arrays |-> Append(arrays,
                                [i \in 1..newCap |->
                                    IF i <= s.len THEN old[i]
                                    ELSE IF i <= needed THEN values[i - s.len]
                                    ELSE ""]),
                 s |-> Slice(Len(arrays) + 1, needed) ]

\* The values of every key of a header whose values are slices.
HeaderContents(arrays, header) ==
    [k \in DOMAIN header |-> SliceContents(arrays, header[k])]

\* b.header[key] = values, for each key of header: the builder's map refers
\* to the very slices of the given header.
SetHeadersSlices(own, header) == header @@ own

\* b.header[key] = append([]string{value}, values...): [arrays, header].
SetHeaderSlices(arrays, own, key, values) ==
    [ arrays |-> Append(arrays, values),
      header |-> (CanonicalMIMEHeaderKey(key) :> Slice(Len(arrays) + 1, Len(values)))
                     @@ own ]

\* b.header[key] = append(b.header[key], append([]string{value}, values...)...):
\* [arrays, header].
AddHeaderSlices(arrays, own, key, values) ==
    LET k == CanonicalMIMEHeaderKey(key)
        app == AppendValues(arrays, IF k \in DOMAIN own THEN own[k] ELSE NilSlice, values)
    IN [ arrays |-> app.arrays, header |-> (k :> app.s) @@ own ]

\* The caller's default header: its values as a slice literal, or added one
\* by one with append.
RECURSIVE AppendEach(_, _, _)
AppendEach(arrays, s, values) ==
    IF values = <<>> THEN [arrays |-> arrays, s |-> s]
    ELSE LET app == AppendValues(arrays, s, <<Head(values)>>)
         IN AppendEach(app.arrays, app.s, Tail(values))

DefaultValues(n) == [i \in 1..n |-> "default" \o ToString(i)]

DefaultSlice(how, n) ==
    IF how = "literal"
    THEN [arrays |-> <<DefaultValues(n)>>, s |-> Slice(1, n)]
    ELSE AppendEach(<<>>, NilSlice, DefaultValues(n))

Cycles == 1..MaxCycles

\* What cycle c adds to or sets on its builder.
CycleValue(c) == "cycle" \o ToString(c)

CycleOutcomes == {o \in RequestDoerOutcomes : o.err = NoError /\ o.resp[1].StatusCode = 418}

CycleEndpoints == {"/{userID}"}

\* A cycle before api.Get.  b is the builder, its header holding slices;
\* built is what Request() returned inside Do and header the slices it gave
\* to req.Header; result is what Do returned; alone is what the same calls
\* give when no other cycle runs.
NoCycleYet ==
    [ pc |-> "none", b |-> <<>>, built |-> <<>>, header |-> <<>>, result |-> <<>>,
      rb |-> <<>>, alone |-> <<>> ]

\* The API with its maps by value: the values of its header slices as the
\* arrays hold them now.
APIByValue(c) ==
    [ api |-> c.api,
      maps |-> [c.maps EXCEPT ![c.api.defaultRequestHeaders] = HeaderContents(c.arrays, @)] ]

\* After NewAPI(client, serverAddress).WithRequestHeaders(h)
\* .WithResponseHandler(418, handler).WithRequestOverrideFunc(hook): the
\* API's header map refers to the slices of h.
InitConcurrent ==
    /\ pc = "conc"
    /\ \E how \in {"literal", "append"}, n \in 1..MaxDefaultValues :
           LET n0 == NewAPI("doerSpy", CHOOSE u \in ServerAddresses : u.User # <<>>)
               given == DefaultSlice(how, n)
               a == WithRequestOverrideFunc(n0.api, "ok")
               handlers == WithResponseHandler(a, n0.maps, 418, SuccessHandler)
               maps == [handlers EXCEPT ![a.defaultRequestHeaders] = ("X-Id" :> given.s)]
               c == [ arrays |-> given.arrays, api |-> a, maps |-> maps,
                      configured |-> <<>>,
                      cycle |-> [i \in Cycles |-> NoCycleYet] ]
           IN conc = [c EXCEPT !.configured = APIByValue(c)]
    /\ form = <<>>
    /\ stub = <<>>
    /\ spy = <<>>
    /\ srv = <<>>
    /\ api = NoAPI
    /\ registered = <<>>
    /\ NoCycle

concFrame == <<pc, requestVars, responseVars, registered, api, form, stub, spy, srv>>

\* The builder of cycle c with its header by value.
Resolved(c) ==
    [conc.cycle[c].b EXCEPT !.header = HeaderContents(conc.arrays, @)]

\* The request of cycle c as the arrays show it now: req.Header refers to
\* the slices Request() copied from the builder.
RequestNow(c) ==
    [conc.cycle[c].built.req[1] EXCEPT
        !.Header = HeaderContents(conc.arrays, conc.cycle[c].header)]

\* api.Get(endpoint): a new builder, whose header map gets the API's slices.
CycleGetStep(c) ==
    /\ pc = "conc"
    /\ conc.cycle[c].pc = "none"
    /\ \E endpoint \in CycleEndpoints :
           LET a == conc.api
               b == SetOverrideFunc(
                        Client(NewRequest("GET", URLString(URL(a, endpoint))), a.client),
                        a.defaultRequestOverrideFunc)
               v == conc.configured
           IN conc' = [conc EXCEPT
                         !.cycle[c] = [ NoCycleYet EXCEPT
                                          !.pc = "builder",
                                          !.b = [b EXCEPT !.header =
                                                    SetHeadersSlices(<<>>, conc.maps[a.defaultRequestHeaders])],
                                          !.alone = APIGet(v.api, v.maps, endpoint) ]]
    /\ UNCHANGED concFrame

\* AddHeader on the builder of cycle c.
CycleAddHeaderStep(c) ==
    /\ pc = "conc"
    /\ conc.cycle[c].pc = "builder"
    /\ \E key \in {"x-id", "accept"} :
           LET added == AddHeaderSlices(conc.arrays, conc.cycle[c].b.header, key, <<CycleValue(c)>>)
           IN conc' = [conc EXCEPT
                         !.arrays = added.arrays,
                         !.cycle[c].pc = "mutated",
                         !.cycle[c].b.header = added.header,
                         !.cycle[c].alone = AddHeader(@, key, <<CycleValue(c)>>)]
    /\ UNCHANGED concFrame

\* SetHeader on the builder of cycle c.
CycleSetHeaderStep(c) ==
    /\ pc = "conc"
    /\ conc.cycle[c].pc = "builder"
    /\ LET set == SetHeaderSlices(conc.arrays, conc.cycle[c].b.header, "x-id", <<CycleValue(c)>>)
       IN conc' = [conc EXCEPT
                     !.arrays = set.arrays,
                     !.cycle[c].pc = "mutated",
                     !.cycle[c].b.header = set.header,
                     !.cycle[c].alone = SetHeader(@, "x-id", <<CycleValue(c)>>)]
    /\ UNCHANGED concFrame

\* SetQueryParam on the builder of cycle c: b.url is the builder's own copy.
CycleSetQueryParamStep(c) ==
    /\ pc = "conc"
    /\ conc.cycle[c].pc = "builder"
    /\ conc' = [conc EXCEPT
                  !.cycle[c].pc = "mutated",
                  !.cycle[c].b = SetQueryParam(@, "foo", <<CycleValue(c)>>),
                  !.cycle[c].alone = SetQueryParam(@, "foo", <<CycleValue(c)>>)]
    /\ UNCHANGED concFrame

\* PathReplacer on the builder of cycle c.
CyclePathReplacerStep(c) ==
    /\ pc = "conc"
    /\ conc.cycle[c].pc = "builder"
    /\ conc' = [conc EXCEPT
                  !.cycle[c].pc = "mutated",
                  !.cycle[c].b = PathReplacer(@, "{userID}", CycleValue(c)),
                  !.cycle[c].alone = PathReplacer(@, "{userID}", CycleValue(c))]
    /\ UNCHANGED concFrame

\* api.Do(ctx, builder) of cycle c, up to the call of the Doer: Request()
\* builds the request from the values the builder's slices hold now, gives
\* the slices to req.Header and runs the hook.  When Request fails, Do
\* returns without calling the Doer.
CycleRequestStep(c) ==
    /\ pc = "conc"
    /\ conc.cycle[c].pc \in {"builder", "mutated"}
    /\ LET built == Request(Resolved(c))
       IN conc' = [conc EXCEPT
                     !.cycle[c].pc = IF built.err # NoError THEN "answered" ELSE "sending",
                     !.cycle[c].built = built,
                     !.cycle[c].header = conc.cycle[c].b.header,
                     !.cycle[c].result =
                         IF built.err # NoError
                         THEN <<DoRequest(built, CHOOSE o \in CycleOutcomes : TRUE)>>
                         ELSE <<>>,
                     !.cycle[c].alone =
                         IF built.err # NoError
                         THEN APIDo(conc.configured.api, conc.configured.maps, @,
                                    CHOOSE o \in CycleOutcomes : TRUE)
                         ELSE @]
    /\ UNCHANGED concFrame

\* b.client.Do(req) of cycle c answers: the Doer has read the request with
\* the values its header slices hold now.
CycleDoerStep(c) ==
    /\ pc = "conc"
    /\ conc.cycle[c].pc = "sending"
    /\ \E outcome \in CycleOutcomes :
           LET v == conc.configured
               built == [conc.cycle[c].built EXCEPT !.req = <<RequestNow(c)>>]
           IN conc' = [conc EXCEPT
                         !.cycle[c].pc = "answered",
                         !.cycle[c].result = <<DoRequest(built, outcome)>>,
                         !.cycle[c].alone = APIDo(v.api, v.maps, @, outcome)]
    /\ UNCHANGED concFrame

\* The rest of api.Do of cycle c: the API's read limit and default handlers,
\* as the API holds them now, are set on the ResponseBuilder.
CycleDefaultsStep(c) ==
    /\ pc = "conc"
    /\ conc.cycle[c].pc = "answered"
    /\ LET now == APIByValue(conc)
           done == conc.cycle[c].result[1]
           rbuilder == ApplyDefaultHandlers(
                           BodySizeReadLimit(done.rb, now.api.defaultResponseBodySizeReadLimit),
                           now.maps[now.api.defaultResponseHandlers])
       IN conc' = [conc EXCEPT
                     !.cycle[c].pc = "response",
                     !.cycle[c].result = <<[done EXCEPT !.rb = rbuilder]>>,
                     !.cycle[c].rb = rbuilder]
    /\ UNCHANGED concFrame

\* OnStatus on the ResponseBuilder of cycle c, for a status the API has a
\* default handler for.
CycleOnStatusStep(c) ==
    /\ pc = "conc"
    /\ conc.cycle[c].pc = "response"
    /\ \E status \in DOMAIN conc.maps[conc.api.defaultResponseHandlers] :
           LET h == ErrorHandler(ErrBoom)
           IN /\ conc.cycle[c].rb # OnStatus(conc.cycle[c].rb, status, h)
              /\ conc' = [conc EXCEPT !.cycle[c].rb = OnStatus(@, status, h)]
    /\ UNCHANGED concFrame

NextConcurrent ==
    \E c \in Cycles :
        \/ CycleGetStep(c)
        \/ CycleAddHeaderStep(c)
        \/ CycleSetHeaderStep(c)
        \/ CycleSetQueryParamStep(c)
        \/ CyclePathReplacerStep(c)
        \/ CycleRequestStep(c)
        \/ CycleDoerStep(c)
        \/ CycleDefaultsStep(c)
        \/ CycleOnStatusStep(c)

SpecConcurrent == InitConcurrent /\ [][NextConcurrent]_vars

\* ----------------------------------------------------------------- claims

\* The response the ResponseBuilder holds, its status, its declared content
\* length, and the configured ceiling.
Held == rb.resp[1]
HeldStatus == Held.StatusCode
Declared == Held.ContentLength
Ceiling == rb.bodySizeReadLimit

\* Error has run on a ResponseBuilder that holds a response and no error.
ResolvedResponse == pc = "done" /\ rb.builderError = NoError /\ rb.resp # <<>>

\* The body-too-large error for declared length d and read limit c.
TooLargeError(d, c) ==
    <<Layer("content length is above read limit", Held.Method, Held.URL,
            <<HeldStatus, d, c>>)>>

IsTooLarge(err) ==
    err # NoError /\ err[1].msg = "content length is above read limit"

\* The bytes of the body that resp.Body has given and can still give.
Readable ==
    stream.read +
        ( IF ~Held.Body.present THEN 0
          ELSE IF Held.Body.limited
          THEN Min(IF Held.Body.N > 0 THEN Held.Body.N ELSE 0, stream.len - stream.read)
          ELSE stream.len - stream.read )

\* C1: when a handler is registered for the status of the captured response
\* and the body size step did not reject, Error invokes that handler once, no
\* other handler, and returns what the handler returned.
C1_MatchedHandlerDecides ==
    ( /\ ResolvedResponse
      /\ HeldStatus \in DOMAIN rb.statusHandler
      /\ ~IsTooLarge(result.err) )
    => /\ Len(invoked) = 1
       /\ invoked[1].status = HeldStatus
       /\ invoked[1].handler = rb.statusHandler[HeldStatus]
       /\ result = [kind |-> "returned", err |-> invoked[1].ret]
       /\ invoked[1].handler.kind = "success" => result.err = NoError
       /\ invoked[1].handler.kind = "error" => result.err = invoked[1].handler.err

\* C1: handlers are registered for two statuses, the one matching the
\* response is a custom handler and Error returned the error it returned.
C1_Witness ==
    /\ ResolvedResponse
    /\ Cardinality(DOMAIN rb.statusHandler) >= 2
    /\ HeldStatus \in DOMAIN rb.statusHandler
    /\ \E s \in DOMAIN rb.statusHandler : rb.statusHandler[s] # rb.statusHandler[HeldStatus]
    /\ Len(invoked) = 1
    /\ invoked[1].handler.kind = "custom"
    /\ result.err = ErrHandler

\* C2: when no handler is registered for the status of the captured response
\* (and the body size step did not reject), Error invokes no handler and
\* returns the unhandled-status error with method, URL and status, which
\* carries the base64 body exactly if a byte of the body was read.
C2_UnhandledStatusError ==
    ( /\ ResolvedResponse
      /\ HeldStatus \notin DOMAIN rb.statusHandler
      /\ ~IsTooLarge(result.err) )
    => /\ invoked = <<>>
       /\ result.kind = "returned"
       /\ Len(result.err) = 1
       /\ result.err[1].msg = "unhandled status"
       /\ result.err[1].method = Held.Method
       /\ result.err[1].url = Held.URL
       /\ result.err[1].nums[1] = HeldStatus
       /\ (Len(result.err[1].nums) = 2) <=> (stream.read > 0)

\* C2, on the responses that have a body stream: there the statement holds,
\* and the encoded body is that of the bytes read.
C2_HoldsWithBody ==
    ( /\ ResolvedResponse
      /\ Held.Body.present
      /\ HeldStatus \notin DOMAIN rb.statusHandler
      /\ ~IsTooLarge(result.err) )
    => /\ invoked = <<>>
       /\ result.kind = "returned"
       /\ result.err =
              <<Layer("unhandled status", Held.Method, Held.URL,
                      IF stream.read > 0
                      THEN <<HeldStatus, EncodedLen(stream.read)>>
                      ELSE <<HeldStatus>>)>>

\* C3 as stated: for every ceiling c >= 0 and declared length d >= 0 with
\* c < d, Error fails with the body-too-large error reporting d and c, reads
\* no byte and invokes no handler.
C3_RejectsEveryCeilingBelowDeclared ==
    (ResolvedResponse /\ Ceiling >= 0 /\ Declared >= 0 /\ Ceiling < Declared)
    => /\ result = [kind |-> "returned", err |-> TooLargeError(Declared, Ceiling)]
       /\ stream.read = 0
       /\ invoked = <<>>

\* C3 as amended: for every ceiling c > 0 and declared length d with c < d,
\* Error fails with the body-too-large error reporting d and c, reads no byte
\* and invokes no handler (a ceiling of 0 stands for the declared length).
C3_RejectsPositiveCeilingBelowDeclared ==
    (ResolvedResponse /\ Ceiling > 0 /\ Ceiling < Declared)
    => /\ result = [kind |-> "returned", err |-> TooLargeError(Declared, Ceiling)]
       /\ stream.read = 0
       /\ Readable = stream.len
       /\ ~Held.Body.limited
       /\ invoked = <<>>

\* C3: a response with a body of bytes and a handler for its status was
\* rejected for a positive ceiling below its declared length.
C3_Witness ==
    /\ ResolvedResponse
    /\ Ceiling > 0 /\ Ceiling < Declared
    /\ stream.len > 0
    /\ HeldStatus \in DOMAIN rb.statusHandler
    /\ IsTooLarge(result.err)

\* What an Error call comes to, for comparing two calls: the error or nil, the
\* handlers invoked, the bytes read and the bytes the body could give.
Outcome(e) ==
    [ kind |-> e.kind, err |-> e.err, invoked |-> e.invoked,
      read |-> e.st.read, closed |-> e.st.closed,
      readable |->
          LET body == e.b.resp[1].Body
          IN e.st.read +
                 ( IF ~body.present THEN 0
                   ELSE IF body.limited
                   THEN Min(IF body.N > 0 THEN body.N ELSE 0, e.st.len - e.st.read)
                   ELSE e.st.len - e.st.read ) ]

\* C4 as stated: a ceiling of 0 is equivalent to a ceiling equal to the
\* declared content length: on every response, Error with BodySizeReadLimit(0)
\* comes to what Error with BodySizeReadLimit(resp.ContentLength) comes to.
C4_ZeroIsContentLength ==
    ( /\ pc = "response"
      /\ rb.builderError = NoError
      /\ rb.resp # <<>>
      /\ Ceiling = 0 )
    => \A beh \in HandlerBehaviours(rb) :
           Outcome(Error(rb, stream, beh))
               = Outcome(Error(BodySizeReadLimit(rb, Declared), stream, beh))

\* C4 as amended: on every response that declares its length (d >= 0), Error
\* with BodySizeReadLimit(0) comes to what Error with BodySizeReadLimit(d)
\* comes to; a response of unknown length is capped at 0 bytes by a ceiling
\* of 0 and not limited at all by a ceiling of -1.
C4_HoldsWhenDeclared ==
    ( /\ pc = "response"
      /\ rb.builderError = NoError
      /\ rb.resp # <<>>
      /\ Ceiling = 0
      /\ Declared >= 0 )
    => \A beh \in HandlerBehaviours(rb) :
           Outcome(Error(rb, stream, beh))
               = Outcome(Error(BodySizeReadLimit(rb, Declared), stream, beh))

\* C4: under a ceiling of 0, a handler asks for more bytes than declared from
\* a stream that holds more, and Error gives it the declared number, as it
\* does under a ceiling equal to the declared length.
C4_Witness ==
    /\ pc = "response"
    /\ rb.builderError = NoError
    /\ rb.resp # <<>>
    /\ Ceiling = 0
    /\ Declared >= 1
    /\ stream.len > Declared
    /\ HeldStatus \in DOMAIN rb.statusHandler
    /\ \E beh \in HandlerBehaviours(rb) :
           /\ beh.want > Declared
           /\ Outcome(Error(rb, stream, beh)).read = Declared
           /\ Outcome(Error(BodySizeReadLimit(rb, Declared), stream, beh)).read = Declared

\* C5: for every ceiling c and declared length d with c > d >= 0, Error
\* raises no size error and at most d bytes of the body can be read, also
\* when the stream holds more.
C5_CeilingShrinksToDeclared ==
    (ResolvedResponse /\ Declared >= 0 /\ Ceiling > Declared)
    => /\ ~IsTooLarge(result.err)
       /\ stream.read <= Declared
       /\ Readable <= Declared

\* C5: a handler asked for more bytes than declared from a stream that holds
\* more, under a larger ceiling, and got the declared number.
C5_Witness ==
    /\ ResolvedResponse
    /\ Declared >= 1 /\ Ceiling > Declared
    /\ stream.len > Declared
    /\ Len(invoked) = 1
    /\ invoked[1].want > Declared
    /\ invoked[1].n = Declared

\* C6: for every response whose declared length is unknown (negative) and
\* every ceiling c >= 0, Error raises no body-too-large error and the handler
\* or the drain reads at most c bytes of the body, whatever its length.
C6_UnknownLengthCappedAtCeiling ==
    (ResolvedResponse /\ Declared < 0 /\ Ceiling >= 0)
    => /\ ~IsTooLarge(result.err)
       /\ stream.read <= Ceiling
       /\ Readable <= Ceiling

\* C6: the drain of an unhandled response of unknown length stopped at a
\* positive ceiling, short of the end of the stream.
C6_Witness ==
    /\ ResolvedResponse
    /\ Declared < 0 /\ Ceiling >= 1
    /\ stream.len > Ceiling
    /\ invoked = <<>>
    /\ stream.read = Ceiling
    /\ result.kind = "returned"

\* C7: for every negative ceiling and every declared length, Error applies no
\* size check and no cap: no body-too-large error, resp.Body stays the
\* original stream, and all of its bytes can be read.
C7_NegativeCeilingDisablesLimit ==
    (ResolvedResponse /\ Ceiling < 0)
    => /\ ~IsTooLarge(result.err)
       /\ ~Held.Body.limited
       /\ Readable = stream.len
       /\ \A i \in 1..Len(invoked) : invoked[i].n = Min(invoked[i].want, stream.len)
       /\ (invoked = <<>> /\ Held.Body.present) => stream.read = stream.len

\* C7: under a negative ceiling a handler read a whole stream that holds more
\* bytes than the response declared.
C7_Witness ==
    /\ ResolvedResponse
    /\ Ceiling < 0
    /\ Declared >= 0
    /\ stream.len > Declared
    /\ Len(invoked) = 1
    /\ invoked[1].n = stream.len

\* C8 as stated: on every Error call on a ResponseBuilder that holds a
\* response with a body, the body stream is closed exactly once, whatever the
\* exit path and whatever the handler does with resp.Body.
C8_ClosedExactlyOnce ==
    (pc = "done" /\ rb.resp # <<>> /\ Held.Body.present) => stream.closed = 1

\* The Close calls the stream got from the handler: one if a handler closed
\* resp.Body while it still was the stream itself (a negative ceiling).
HandlerCloses ==
    IF invoked # <<>> /\ invoked[1].closes /\ Ceiling < 0 THEN 1 ELSE 0

\* C8 as amended: on every Error call on a ResponseBuilder that holds a
\* response with a body, Error itself closes the body stream exactly once on
\* every exit path; the stream is closed exactly once in all, unless the
\* ceiling is negative and the handler closes resp.Body, which then is the
\* stream itself and is closed twice.
C8_ErrorClosesExactlyOnce ==
    (pc = "done" /\ rb.resp # <<>> /\ Held.Body.present)
    => stream.closed = 1 + HandlerCloses

\* C8: a handler closed resp.Body under a ceiling >= 0 and the stream was
\* closed once.
C8_Witness ==
    /\ ResolvedResponse
    /\ Held.Body.present
    /\ Ceiling >= 0
    /\ Len(invoked) = 1
    /\ invoked[1].closes
    /\ stream.closed = 1

\* C8: the exit on a captured error closed the body of the held response.
C8_WitnessCapturedError ==
    /\ pc = "done"
    /\ rb.builderError # NoError
    /\ rb.resp # <<>>
    /\ Held.Body.present
    /\ stream.closed = 1

\* C9: if the ResponseBuilder holds a captured error, Error returns that
\* error and does nothing else: no body size step (the body is neither read
\* nor replaced), no handler invoked, no unhandled-status error.
C9_CapturedErrorShortCircuits ==
    (pc = "done" /\ rb.builderError # NoError)
    => /\ result = [kind |-> "returned", err |-> rb.builderError]
       /\ invoked = <<>>
       /\ stream.read = 0
       /\ rb.resp # <<>> => ~Held.Body.limited

\* C9: the captured error was returned although a handler is registered for
\* the status of the held response, whose declared length is above the
\* ceiling.
C9_Witness ==
    /\ pc = "done"
    /\ rb.builderError # NoError
    /\ rb.resp # <<>>
    /\ HeldStatus \in DOMAIN rb.statusHandler
    /\ Ceiling > 0 /\ Ceiling < Declared
    /\ result.err = rb.builderError

\* C10: Do never fails synchronously: it returns a ResponseBuilder that holds
\* either the response or an error, never both and never neither; the
\* response only if Request and the Doer both succeeded, else the Request
\* error or the Doer's error, wrapped; and that error is what Error returns.
C10_DoCapturesOutcome ==
    /\ [][ (pc = "request" /\ pc' = "response") =>
             LET built == Request(rqb)
                 doerCalled == Len(sent') = Len(sent) + 1
                 answer == sent'[Len(sent')].outcome
             IN /\ (rb'.resp = <<>>) # (rb'.builderError = NoError)
                /\ (rb'.resp # <<>>)
                       <=> (built.err = NoError /\ doerCalled /\ answer.err = NoError)
                /\ built.err # NoError =>
                       /\ sent' = sent
                       /\ rb'.builderError =
                              Wrap(Layer("unable to create request", "", "", <<>>), built.err)
                /\ built.err = NoError =>
                       /\ doerCalled
                       /\ answer.err # NoError =>
                              /\ Len(rb'.builderError) = Len(answer.err) + 1
                              /\ IsSuffix(answer.err, rb'.builderError)
          ]_vars
    /\ [][ (pc = "response" /\ pc' = "done" /\ rb.builderError # NoError) =>
             result' = [kind |-> "returned", err |-> rb.builderError]
          ]_vars

\* C10: the Doer failed on a request that was marshaled and overridden, the
\* ResponseBuilder holds the error and no response, and Error returned it.
C10_Witness ==
    /\ pc = "done"
    /\ Len(sent) = 1
    /\ sent[1].outcome.err # NoError
    /\ calls.marshal = 1 /\ Len(calls.hook) = 1
    /\ rb.resp = <<>>
    /\ IsSuffix(ErrDoer, rb.builderError)
    /\ result.err = rb.builderError

\* C10: Request failed, the Doer was not called, and Error returned the
\* captured error.
C10_WitnessFinalizeFailed ==
    /\ pc = "done"
    /\ sent = <<>>
    /\ rb.resp = <<>>
    /\ IsSuffix(ErrMarshal, rb.builderError)
    /\ result.err = rb.builderError

\* C11: within one Do / Error cycle the Doer is invoked at most once: Do does
\* not invoke it when Request fails and invokes it exactly once otherwise,
\* also when the Doer fails (no retry), and Error never invokes it.
C11_DoerInvokedAtMostOnce ==
    /\ [][ (pc = "request" /\ pc' = "response") =>
             /\ Request(rqb).err # NoError => sent' = sent
             /\ Request(rqb).err = NoError =>
                    /\ Len(sent') = Len(sent) + 1
                    /\ sent'[Len(sent')].req = Request(rqb).req[1]
          ]_vars
    /\ [][ pc = "request" /\ pc' = "request" => sent' = sent ]_vars
    /\ [][ pc # "request" => (sent' = sent /\ Len(sent) <= 1) ]_vars

\* C11: Request was called directly and then Do ran on a builder whose
\* request builds; the Doer failed, was called that once, and Error returned.
C11_Witness ==
    /\ pc = "done"
    /\ calls.request = 1
    /\ lastReq.err = NoError
    /\ Len(sent) = 1
    /\ sent[1].outcome.err = ErrDoer
    /\ sent[1].outcome.resp = <<>>
    /\ IsSuffix(ErrDoer, result.err)

\* C11: Request failed inside Do, the Doer was never called, Error returned.
C11_WitnessFinalizeFailed ==
    /\ pc = "done"
    /\ rqb.method = "\\"
    /\ sent = <<>>
    /\ result.kind = "returned"
    /\ result.err # NoError

\* A direct call of Request() is the step, and both a raw body (Send or
\* SendForm) and an object to serialize (SendJSON) are set on the builder.
RequestCalled == pc = "request" /\ calls'.request = calls.request + 1

BothBodiesSet == rqb.body \in {"reader", "form"} /\ rqb.bodyToMarshal # "nil"

\* C12 as stated: for every builder on which both a raw body and an object to
\* serialize are set, Request fails with the body-conflict error and returns
\* no request; the setters themselves report nothing.
C12_BodyConflictOnEveryBuilder ==
    /\ [][ (RequestCalled /\ BothBodiesSet) =>
             lastReq' = [called |-> TRUE, req |-> <<>>, err |-> ErrBodyConflict]
          ]_vars
    /\ [][ (pc = "request" /\ pc' = "request" /\ ~RequestCalled) =>
             rqb'.builderError = rqb.builderError
          ]_vars

\* C12 as amended: for every builder that captured no construction error and
\* on which both a raw body and an object to serialize are set, in either
\* order, Request fails with the body-conflict error and returns no request,
\* and Do captures that error; a builder that captured a construction error
\* (an endpoint that does not parse) fails with that error instead.  The
\* setters report nothing and capture nothing.
C12_BodyConflictAtFinalize ==
    /\ [][ (RequestCalled /\ BothBodiesSet) =>
             /\ lastReq'.called /\ lastReq'.req = <<>>
             /\ lastReq'.err =
                    IF rqb.builderError = NoError THEN ErrBodyConflict
                    ELSE rqb.builderError
             /\ calls'.marshal = calls.marshal /\ calls'.hook = calls.hook
          ]_vars
    /\ [][ (pc = "request" /\ pc' = "response" /\ BothBodiesSet
              /\ rqb.builderError = NoError) =>
             /\ sent' = sent
             /\ rb'.resp = <<>>
             /\ rb'.builderError =
                    Wrap(Layer("unable to create request", "", "", <<>>), ErrBodyConflict)
          ]_vars
    /\ [][ (pc = "request" /\ pc' = "request" /\ ~RequestCalled) =>
             /\ rqb'.builderError = rqb.builderError
             /\ lastReq' = lastReq
          ]_vars

\* C12: Send, then SendJSON (its Content-Type is the one left), then Request
\* answered the body-conflict error and no request.
C12_Witness ==
    /\ pc = "request"
    /\ rqb.builderError = NoError
    /\ rqb.body = "reader" /\ rqb.bodyToMarshal = "obj"
    /\ rqb.header["Content-Type"] = <<"application/json">>
    /\ lastReq = [called |-> TRUE, req |-> <<>>, err |-> ErrBodyConflict]

\* C12: SendJSON, then SendForm, then Request answered the body-conflict
\* error.
C12_WitnessRawBodyLast ==
    /\ pc = "request"
    /\ rqb.builderError = NoError
    /\ rqb.body = "form" /\ rqb.bodyToMarshal = "obj"
    /\ rqb.header["Content-Type"] = <<"application/x-www-form-urlencoded">>
    /\ calls.request = 1
    /\ lastReq = [called |-> TRUE, req |-> <<>>, err |-> ErrBodyConflict]

\* The request that Request on the builder constructs before the hook runs,
\* and whether the steps before the hook succeed.
BeforeHook == Request([rqb EXCEPT !.overrideFunc = "nil"])

\* C13: when an override hook is set and the earlier steps of Request
\* succeed, the hook is invoked exactly once and last, on the constructed
\* request carrying all accumulated headers; on success Request returns the
\* request the hook returned, on a hook error no request and an error that
\* wraps the hook's error.  When an earlier step fails the hook is not invoked.
C13_HookRunsOnceAndLast ==
    [][ (RequestCalled /\ rqb.overrideFunc # "nil") =>
          IF BeforeHook.err = NoError
          THEN /\ calls'.hook = Append(calls.hook, BeforeHook.req[1])
               /\ calls'.hook[Len(calls'.hook)].Header = rqb.header
               /\ LET over == Override(rqb.overrideFunc, BeforeHook.req)
                  IN IF over.err = NoError
                     THEN /\ lastReq'.req = over.req
                          /\ lastReq'.err = NoError
                     ELSE /\ lastReq'.req = <<>>
                          /\ Len(lastReq'.err) = Len(over.err) + 1
                          /\ IsSuffix(over.err, lastReq'.err)
          ELSE /\ calls'.hook = calls.hook
               /\ lastReq'.req = <<>>
               /\ lastReq'.err = BeforeHook.err
      ]_vars

\* C13: on a builder with a Content-Type header and a marshaled body the hook
\* failed: it got the request with the header, and Request returned no
\* request and an error wrapping the hook's.
C13_Witness ==
    /\ pc = "request"
    /\ rqb.overrideFunc = "fail"
    /\ calls.marshal = 1
    /\ Len(calls.hook) = 1
    /\ calls.hook[1].Header = rqb.header
    /\ "Content-Type" \in DOMAIN calls.hook[1].Header
    /\ lastReq.called /\ lastReq.req = <<>>
    /\ IsSuffix(ErrOverride, lastReq.err)

\* C13: the hook succeeded and Request returned the request it returned.
C13_WitnessHookSucceeded ==
    /\ pc = "request"
    /\ rqb.overrideFunc = "ok"
    /\ Len(calls.hook) = 1
    /\ "Content-Type" \in DOMAIN calls.hook[1].Header
    /\ lastReq.called /\ lastReq.err = NoError
    /\ lastReq.req = <<[calls.hook[1] EXCEPT !.overridden = TRUE]>>

\* Error returned an error that is or wraps err (errors.Is).
ReturnedWraps(err) == result.kind = "returned" /\ IsSuffix(err, result.err)

\* C14: whenever the failure is caused by an error value supplied by the
\* caller (the error given to ErrorOnStatus, the error a custom handler
\* returned, the Doer's, the body marshaler's or the override hook's error),
\* the error that Error returns is or wraps that error value.
C14_CallerErrorIdentitySurvives ==
    pc = "done" =>
        /\ \A i \in 1..Len(invoked) :
               /\ invoked[i].ret # NoError => ReturnedWraps(invoked[i].ret)
               /\ invoked[i].handler.kind = "error" =>
                      ReturnedWraps(invoked[i].handler.err)
               /\ (invoked[i].handler.kind = "custom" /\ invoked[i].ret # NoError) =>
                      result.err = ErrHandler
        /\ \A i \in 1..Len(sent) :
               sent[i].outcome.err # NoError => ReturnedWraps(sent[i].outcome.err)
        /\ (calls.marshal = 1 /\ ~Marshal(rqb.bodyToMarshal).ok) =>
               ReturnedWraps(Marshal(rqb.bodyToMarshal).err)
        /\ (Len(calls.hook) = 1
              /\ Override(rqb.overrideFunc, <<calls.hook[1]>>).err # NoError) =>
               ReturnedWraps(Override(rqb.overrideFunc, <<calls.hook[1]>>).err)

\* C14: the marshaler's error came back from Error under two layers (Request's
\* and Do's) although a handler was registered on the ResponseBuilder.
C14_Witness ==
    /\ pc = "done"
    /\ calls.marshal = 1
    /\ rqb.bodyToMarshal = "unmarshalable"
    /\ rb.statusHandler # <<>>
    /\ Len(result.err) = 3
    /\ ReturnedWraps(ErrMarshal)

\* C14: the hook's error came back from Error.
C14_WitnessHook ==
    /\ pc = "done"
    /\ Len(calls.hook) = 1
    /\ sent = <<>>
    /\ result.err # ErrOverride
    /\ ReturnedWraps(ErrOverride)

\* C14: the Doer's error came back from Error.
C14_WitnessDoer ==
    /\ pc = "done"
    /\ Len(sent) = 1
    /\ Len(calls.hook) = 1
    /\ result.err # ErrDoer
    /\ ReturnedWraps(ErrDoer)

\* C14: the error given to ErrorOnStatus came back from Error as it is.
C14_WitnessErrorOnStatus ==
    /\ pc = "done"
    /\ Len(sent) = 1
    /\ Len(invoked) = 1
    /\ invoked[1].handler = ErrorHandler(ErrSentinel)
    /\ result = [kind |-> "returned", err |-> ErrSentinel]

\* C14: the error a custom handler returned came back from Error as it is.
C14_WitnessCustomHandler ==
    /\ pc = "done"
    /\ calls.marshal = 1
    /\ Len(invoked) = 1
    /\ invoked[1].handler.kind = "custom"
    /\ result = [kind |-> "returned", err |-> ErrHandler]

\* The registrations of the log that name status s, and the last of them.
RegistrationsOf(s) ==
    {i \in 1..Len(registered) :
        \E j \in 1..Len(registered[i].statuses) : registered[i].statuses[j] = s}

LastRegistrationOf(s) ==
    registered[CHOOSE i \in RegistrationsOf(s) : \A k \in RegistrationsOf(s) : k <= i]

\* C15: after any sequence of OnStatus, OnStatuses, SuccessOnStatus,
\* ErrorOnStatus and ReceiveJSON registrations, the dispatch table holds for
\* each status exactly the handler of the most recent registration that names
\* it, and no handler for a status no registration names; Error dispatches to
\* that handler.
C15_LastRegistrationWins ==
    /\ \A s \in Statuses :
           IF RegistrationsOf(s) = {}
           THEN s \notin DOMAIN rb.statusHandler
           ELSE /\ s \in DOMAIN rb.statusHandler
                /\ rb.statusHandler[s] = LastRegistrationOf(s).handler
    /\ DOMAIN rb.statusHandler \subseteq Statuses
    /\ (pc = "done" /\ rb.builderError = NoError /\ rb.resp # <<>>
          /\ RegistrationsOf(HeldStatus) # {}) =>
           /\ Len(invoked) = 1
           /\ invoked[1].handler = LastRegistrationOf(HeldStatus).handler

\* C15: OnStatuses gave two statuses a handler, ReceiveJSON then replaced the
\* handler of one of them, the other kept its own, and Error dispatched to
\* the ReceiveJSON handler.
C15_Witness ==
    /\ pc = "done"
    /\ rb.resp # <<>>
    /\ Len(registered) = 2
    /\ Len(registered[1].statuses) = 2
    /\ registered[1].handler = CustomHandler(1)
    /\ registered[2] = Registration(<<HeldStatus>>, JSONHandler(1))
    /\ \E s \in DOMAIN rb.statusHandler :
           s # HeldStatus /\ rb.statusHandler[s] = CustomHandler(1)
    /\ Len(invoked) = 1
    /\ invoked[1].handler = JSONHandler(1)

\* The API in use, and its default handlers and default headers.
UsedAPI == api[api.used][1]
DefaultHandlers == api.maps[UsedAPI.defaultResponseHandlers]
DefaultHeaders == api.maps[UsedAPI.defaultRequestHeaders]

\* The handler a caller registers on the ResponseBuilder (the API's defaults
\* are other handlers).
CallerHandler == ErrorHandler(ErrSentinel)

\* C16: every ResponseBuilder that API.Do returns contains all the default
\* status handlers of the API, and a handler the caller then registers for a
\* status S takes precedence over the default for S: on a response with
\* status S only the caller's handler is invoked.
C16_DefaultsThenCallerWins ==
    /\ [][ (pc = "request" /\ pc' = "response") =>
             /\ \A s \in DOMAIN DefaultHandlers :
                    /\ s \in DOMAIN rb'.statusHandler
                    /\ rb'.statusHandler[s] = DefaultHandlers[s]
             /\ DOMAIN rb'.statusHandler = DOMAIN DefaultHandlers
          ]_vars
    /\ [][ (pc = "response" /\ pc' = "response") =>
             \E s \in DOMAIN rb'.statusHandler :
                 /\ rb'.statusHandler[s] = CallerHandler
                 /\ \A o \in DOMAIN rb.statusHandler \ {s} :
                        rb'.statusHandler[o] = rb.statusHandler[o]
          ]_vars
    /\ [][ (pc = "response" /\ pc' = "done" /\ rb.builderError = NoError
              /\ HeldStatus \in DOMAIN rb.statusHandler
              /\ rb.statusHandler[HeldStatus] = CallerHandler) =>
             /\ Len(invoked') = 1
             /\ invoked'[1].handler = CallerHandler
             /\ result' = [kind |-> "returned", err |-> ErrSentinel]
          ]_vars

\* C16: the API has a default handler for the status of the response, the
\* caller registered its own for that status on the ResponseBuilder that
\* API.Do returned, and Error invoked the caller's handler only.
C16_Witness ==
    /\ pc = "done"
    /\ api.used # "none"
    /\ rb.resp # <<>>
    /\ HeldStatus \in DOMAIN DefaultHandlers
    /\ DefaultHandlers[HeldStatus] = SuccessHandler
    /\ Cardinality(DOMAIN DefaultHandlers) >= 2
    /\ rb.statusHandler[HeldStatus] = CallerHandler
    /\ invoked = <<[ status |-> HeldStatus, handler |-> CallerHandler, want |-> 0,
                     closes |-> FALSE, ret |-> ErrSentinel, n |-> 0 ]>>
    /\ result.err = ErrSentinel

\* The header names the caller set with SetHeader on the builder.
CallerSet == {k \in DOMAIN rqb.header : rqb.header[k] = <<"request">>}

SameHeaderName(k1, k2) == CanonicalMIMEHeaderKey(k1) = CanonicalMIMEHeaderKey(k2)

\* C17: request-specific headers take precedence over API default headers:
\* on a builder from an API request method, SetHeader(k, v) makes the
\* finalized request carry only v for header k (names compared without
\* case), while the API default headers of other names are still sent.
C17_RequestHeaderWins ==
    (api.used # "none" /\ Len(sent) = 1) =>
        LET header == sent[1].req.Header
        IN /\ \A k \in CallerSet, k2 \in DOMAIN header :
                  SameHeaderName(k, k2) => header[k2] = <<"request">>
           /\ \A k2 \in DOMAIN DefaultHeaders :
                  (\A k \in CallerSet : ~SameHeaderName(k, k2)) =>
                      (k2 \in DOMAIN header /\ header[k2] = DefaultHeaders[k2])

\* C17, for an API whose default header names are all spelled canonically:
\* there the statement holds.
C17_HoldsForCanonicalDefaults ==
    ( /\ api.used # "none"
      /\ Len(sent) = 1
      /\ \A k \in DOMAIN DefaultHeaders : CanonicalMIMEHeaderKey(k) = k ) =>
        LET header == sent[1].req.Header
        IN /\ \A k \in CallerSet, k2 \in DOMAIN header :
                  SameHeaderName(k, k2) => header[k2] = <<"request">>
           /\ \A k2 \in DOMAIN DefaultHeaders :
                  (\A k \in CallerSet : ~SameHeaderName(k, k2)) =>
                      (k2 \in DOMAIN header /\ header[k2] = DefaultHeaders[k2])

\* C18: after any sequence of SetHeader, SetHeaders, AddHeader and AddHeaders
\* calls every key of the RequestBuilder's header map is in canonical form,
\* so two spellings of one header name never coexist as distinct keys.
C18_HeaderKeysCanonical ==
    pc = "request" =>
        /\ \A k \in DOMAIN rqb.header : CanonicalMIMEHeaderKey(k) = k
        /\ \A k1 \in DOMAIN rqb.header, k2 \in DOMAIN rqb.header :
               SameHeaderName(k1, k2) => k1 = k2

\* C18, restricted to what the code does: a key that SetHeader or AddHeader
\* wrote (it holds a value only they give) is canonical; SetHeader leaves
\* exactly its values under the canonical key, AddHeader appends its value
\* there, and neither touches another key.
C18_SetAndAddHeaderCanonicalize ==
    /\ [](pc = "request" =>
            \A k \in DOMAIN rqb.header :
                (\E i \in 1..Len(rqb.header[k]) :
                     rqb.header[k][i] \in {"request", "added"})
                    => CanonicalMIMEHeaderKey(k) = k)
    /\ [][ (pc = "request" /\ pc' = "request" /\ rqb'.header # rqb.header) =>
             \E k \in DOMAIN rqb'.header :
                 /\ \A o \in DOMAIN rqb.header \ {k} :
                        o \in DOMAIN rqb'.header /\ rqb'.header[o] = rqb.header[o]
                 /\ DOMAIN rqb'.header \subseteq DOMAIN rqb.header \cup {k}
                 /\ LET old == IF k \in DOMAIN rqb.header THEN rqb.header[k] ELSE <<>>
                    IN \/ Len(rqb'.header[k]) = 1
                       \/ /\ Len(rqb'.header[k]) = Len(old) + 1
                          /\ SubSeq(rqb'.header[k], 1, Len(old)) = old
          ]_vars

\* The configuration of API struct a, its maps read from the heap.
Config(a, maps) ==
    [ client |-> a.client,
      serverAddress |-> a.serverAddress,
      defaultRequestHeaders |-> maps[a.defaultRequestHeaders],
      defaultRequestOverrideFunc |-> a.defaultRequestOverrideFunc,
      defaultResponseHandlers |-> maps[a.defaultResponseHandlers],
      defaultResponseBodySizeReadLimit |-> a.defaultResponseBodySizeReadLimit ]

OrigConfig == Config(api.orig[1], api.maps)
CloneConfig == Config(api.clone[1], api.maps)

\* Clone is the step.
Cloned == pc = "api" /\ api.clone = <<>> /\ api'.clone # <<>>

\* C19: Clone returns an API whose configuration equals the original's in
\* every field (client, server address with user info, default headers,
\* default handlers, default ceiling, default override hook), so the requests
\* the clone produces are those the original produces.
C19_CloneEqualsOriginal ==
    [][ Cloned =>
          /\ Config(api'.clone[1], api'.maps) = Config(api'.orig[1], api'.maps)
          /\ \A method \in APIMethods, endpoint \in APIEndpoints :
                 APIMethod(method, api'.clone[1], api'.maps, endpoint)
                     = APIMethod(method, api'.orig[1], api'.maps, endpoint)
      ]_vars

\* C19, without the override hook: Clone copies every other field, and the
\* clone's override hook is nil whatever the original's is.
C19_CloneEqualsExceptOverrideFunc ==
    [][ Cloned =>
          /\ Config(api'.clone[1], api'.maps)
                 = [Config(api'.orig[1], api'.maps) EXCEPT !.defaultRequestOverrideFunc = "nil"]
          /\ \A method \in APIMethods, endpoint \in APIEndpoints :
                 APIMethod(method, api'.clone[1], api'.maps, endpoint)
                     = SetOverrideFunc(
                           APIMethod(method, api'.orig[1], api'.maps, endpoint), "nil")
      ]_vars

\* C20: a clone is independent of its original: Clone leaves the original's
\* configuration as it is, and once the clone exists every WithRequestHeaders,
\* WithResponseHandler, WithResponseBodySizeReadLimit or
\* WithRequestOverrideFunc call changes the configuration of the API it is
\* called on and leaves the other's unchanged.
C20_CloneIndependent ==
    /\ [][ Cloned =>
             /\ Config(api'.orig[1], api'.maps) = OrigConfig
             /\ api'.clone[1].defaultRequestHeaders # api'.orig[1].defaultRequestHeaders
             /\ api'.clone[1].defaultResponseHandlers # api'.orig[1].defaultResponseHandlers
          ]_vars
    /\ [][ (pc = "api" /\ api.clone # <<>> /\ api' # api /\ api'.used = "none") =>
             \/ /\ Config(api'.orig[1], api'.maps) = OrigConfig
                /\ Config(api'.clone[1], api'.maps) # CloneConfig
             \/ /\ Config(api'.clone[1], api'.maps) = CloneConfig
                /\ Config(api'.orig[1], api'.maps) # OrigConfig
          ]_vars

\* C20: after Clone both the clone and the original were configured further:
\* each has a header and a handler the other lacks, the clone alone has a
\* changed ceiling and the original alone an override hook.
C20_Witness ==
    /\ api.clone # <<>>
    /\ \E k \in DOMAIN CloneConfig.defaultRequestHeaders :
           k \notin DOMAIN OrigConfig.defaultRequestHeaders
    /\ \E k \in DOMAIN OrigConfig.defaultRequestHeaders :
           k \notin DOMAIN CloneConfig.defaultRequestHeaders
    /\ \E st \in DOMAIN CloneConfig.defaultResponseHandlers :
           st \notin DOMAIN OrigConfig.defaultResponseHandlers
    /\ \E st \in DOMAIN OrigConfig.defaultResponseHandlers :
           st \notin DOMAIN CloneConfig.defaultResponseHandlers
    /\ CloneConfig.defaultResponseBodySizeReadLimit = 1
    /\ OrigConfig.defaultResponseBodySizeReadLimit = DefaultResponseBodySizeReadLimit
    /\ OrigConfig.defaultRequestOverrideFunc = "ok"
    /\ CloneConfig.defaultRequestOverrideFunc = "nil"
    /\ OrigConfig.serverAddress.User # <<>>

\* What the last and the next call of ParsePostForm returned.
LastParse == form.returned[Len(form.returned)]
NextParse == form'.returned[Len(form'.returned)]
ParsedAgain == pc = "form" /\ form.returned # <<>> /\ Len(form'.returned) = Len(form.returned) + 1

\* C22: ParsePostForm is idempotent: after a call that succeeded, a further
\* call on the same request returns nil, leaves the request as it is, and
\* req.PostForm (non-nil) equals the value after the first call, for POST, PUT,
\* PATCH and for every other method.
C22_ParsePostFormIdempotent ==
    [][ (ParsedAgain /\ LastParse.err = NoError /\ ~LastParse.panic) =>
          /\ form.req.PostForm # Nil
          /\ NextParse.err = NoError
          /\ ~NextParse.panic
          /\ NextParse.PostForm = LastParse.PostForm
          /\ form'.req = form.req
      ]_vars

\* C22: ParsePostForm was called twice on a DELETE request whose body held
\* form data; the first call read the body and filled PostForm from it.
C22_Witness ==
    /\ pc = "form"
    /\ Len(form.returned) = 2
    /\ form.req.Method = "DELETE"
    /\ form.returned[1].err = NoError
    /\ form.returned[1].PostForm = <<("foo" :> <<"bar">>) @@ ("baz" :> <<"1">>)>>
    /\ form.req.Body # Nil
    /\ form.req.Body[1].data = <<>>

\* C22: the same for a POST request, parsed by req.ParseForm.
C22_WitnessFormMethod ==
    /\ pc = "form"
    /\ Len(form.returned) = 2
    /\ form.req.Method = "POST"
    /\ form.returned[1].err = NoError
    /\ form.returned[1].PostForm = <<("foo" :> <<"bar", "bar">>)>>

\* C29: a ParsePostForm failure is stable: after a call that returned an
\* error, a further call on the same request returns an error too.
C29_ParseFailureStable ==
    [][ (ParsedAgain /\ LastParse.err # NoError) => NextParse.err # NoError ]_vars

\* C29: what the code does instead: a failed call leaves req.PostForm non-nil,
\* so every further call returns nil and leaves PostForm as the failed call
\* left it.
C29_FailureIsForgotten ==
    [][ (ParsedAgain /\ LastParse.err # NoError) =>
          /\ form.req.PostForm # Nil
          /\ NextParse.err = NoError
          /\ NextParse.PostForm = LastParse.PostForm
      ]_vars

\* The request is accepted by the configured call: no matcher, or a matcher
\* that returns no error.
Accepts(call, req) == call.Matcher = <<>> \/ call.Matcher = <<req>>

\* The completed Do calls of the stub that returned a configured call.
Consuming == {i \in 1..Len(stub.returned) : stub.returned[i].call # <<>>}

\* C23: in strict order Do looks at the first remaining call only: when that
\* call has no matcher or accepts the request its response and error are
\* returned and it is removed, when it rejects the request Do returns a nil
\* response with "request does not match" and the remaining calls stay; the
\* calls are consumed in configured order.
C23_StrictOrderConsumesFirst ==
    /\ \A i \in 1..Len(stub.returned) :
           LET e == stub.returned[i]
           IN (e.strictOrder /\ e.before # <<>>) =>
                  IF Accepts(e.before[1], e.req)
                  THEN /\ e.resp = <<e.before[1].Response>>
                       /\ e.err = e.before[1].Error
                       /\ e.after = Tail(e.before)
                  ELSE /\ e.resp = <<>>
                       /\ e.err = ErrDoesNotMatch
                       /\ e.after = e.before
    /\ stub.d.strictOrder =>
           \A i \in Consuming :
               stub.returned[i].resp[1] = Cardinality({j \in Consuming : j <= i})

\* C23: in strict order a Do was rejected by the matcher of the first of two
\* calls although the second has no matcher, then the first call was consumed.
C23_Witness ==
    /\ pc = "stub"
    /\ stub.d.strictOrder
    /\ Len(stub.given) = 2
    /\ stub.given[2].Matcher = <<>>
    /\ Len(stub.returned) = 2
    /\ stub.returned[1].err = ErrDoesNotMatch
    /\ stub.returned[1].after = stub.given
    /\ stub.returned[2].resp = <<1>>
    /\ stub.returned[2].after = <<stub.given[2]>>

\* The places of the remaining calls that accept the request.
Qualifying(e) == {k \in 1..Len(e.before) : Accepts(e.before[k], e.req)}

\* C24: in flexible order Do returns and removes the earliest remaining call
\* that has no matcher or accepts the request and keeps the others in their
\* order; when no remaining call qualifies it returns a nil response with
\* "http doer not configured for this call" and the remaining calls stay.
C24_FlexibleOrderConsumesEarliestMatch ==
    \A i \in 1..Len(stub.returned) :
        LET e == stub.returned[i]
        IN ~e.strictOrder =>
               IF Qualifying(e) # {}
               THEN LET k == CHOOSE k \in Qualifying(e) : \A l \in Qualifying(e) : k <= l
                    IN /\ e.resp = <<e.before[k].Response>>
                       /\ e.err = e.before[k].Error
                       /\ e.after = SubSeq(e.before, 1, k - 1)
                                        \o SubSeq(e.before, k + 1, Len(e.before))
               ELSE /\ e.resp = <<>>
                    /\ e.err = ErrNotConfigured
                    /\ e.after = e.before

\* C24: in flexible order, of three configured calls a Do skipped the first
\* and consumed the second, the first and the third staying in their order,
\* and a later Do consumed the first, the third staying.
C24_Witness ==
    /\ pc = "stub"
    /\ ~stub.d.strictOrder
    /\ Len(stub.given) = 3
    /\ Len(stub.returned) = 2
    /\ stub.returned[1].before = stub.given
    /\ stub.returned[1].resp = <<2>>
    /\ stub.returned[1].after = <<stub.given[1], stub.given[3]>>
    /\ stub.returned[2].resp = <<1>>
    /\ stub.returned[2].after = <<stub.given[3]>>

\* C24: in flexible order a Do consumed the first of three configured calls,
\* and the second and the third moved down in their order.
C24_WitnessSurvivorsMoveDown ==
    /\ pc = "stub"
    /\ ~stub.d.strictOrder
    /\ Len(stub.given) = 3
    /\ Len(stub.returned) = 1
    /\ stub.returned[1].resp = <<1>>
    /\ stub.returned[1].after = <<stub.given[2], stub.given[3]>>

\* C24: in flexible order no remaining call accepted the request.
C24_WitnessNoneQualifies ==
    /\ pc = "stub"
    /\ ~stub.d.strictOrder
    /\ Len(stub.returned) = 1
    /\ stub.returned[1].before = stub.given
    /\ Len(stub.given) = 2
    /\ stub.returned[1].err = ErrNotConfigured
    /\ stub.returned[1].after = stub.given

\* C27: on every interleaving of Do calls of several goroutines, no configured
\* call is returned by two Do calls; whenever the mutex is free the number of
\* remaining calls is the initial number minus the number of Do calls that
\* returned a configured call, and inside the critical section the Do that has
\* removed its call counts too; neither the slice given to NewDoerStub nor a
\* slice RemainingCalls returned changes.
C27_ConcurrentDoConsumesOnce ==
    /\ \A i, j \in Consuming : i # j => stub.returned[i].call # stub.returned[j].call
    /\ \A g \in Doers :
           stub.g[g].pc \in {"taken", "removed"} =>
               \A i \in Consuming : stub.returned[i].call # stub.g[g].call
    /\ \A g \in Doers : stub.g[g].pc # "panicked"
    /\ stub.d.calls.len
           = Len(stub.given) - Cardinality(Consuming)
                 - Cardinality({g \in Doers : stub.g[g].pc = "removed"})
    /\ MutexFree(stub.d.m) =>
           stub.d.calls.len = Len(stub.given) - Cardinality(Consuming)
    /\ stub.arrays[1] = stub.given
    /\ stub.d.calls.arr # 1
    /\ \A k \in 1..Len(stub.snapshots) :
           /\ stub.arrays[stub.snapshots[k].s.arr] = stub.snapshots[k].was
           /\ stub.d.calls.arr # stub.snapshots[k].s.arr

\* C27: one goroutine consumed a call, RemainingCalls was called, and a
\* second goroutine has removed the other call inside the critical section.
C27_Witness ==
    /\ pc = "stub"
    /\ Len(stub.returned) = 1
    /\ Consuming = {1}
    /\ stub.snapshots # <<>>
    /\ Len(stub.snapshots[1].was) = 1
    /\ stub.d.calls.len = 0
    /\ \E g \in Doers : stub.g[g].pc = "removed" /\ g # stub.returned[1].g

\* The Calls() results one after the other.
RECURSIVE Flatten(_)
Flatten(seqs) == IF seqs = <<>> THEN <<>> ELSE Head(seqs) \o Flatten(Tail(seqs))

\* The records of sequence s.
Records(s) == {s[i] : i \in 1..Len(s)}

\* C25: every Do that completed was recorded with its request, response and
\* error; the Calls results, followed by what a running Calls has copied and
\* by the history still held, are exactly the records in the order they were
\* recorded, each once: no record is lost or returned twice, so each Calls
\* returns what was recorded since the previous one, also when Do and Calls
\* interleave.
C25_EveryCallInExactlyOneResult ==
    /\ Records(spy.completed) \subseteq Records(spy.recorded)
    /\ \A i, j \in 1..Len(spy.recorded) :
           i # j => spy.recorded[i].InputRequest # spy.recorded[j].InputRequest
    /\ spy.recorded
           = Flatten(spy.results)
                 \o (IF spy.reader.pc = "cleared" THEN spy.reader.copy ELSE <<>>)
                 \o spy.calls
    /\ spy.reader.pc = "copied" => spy.reader.copy = spy.calls
    /\ spy.reader.pc = "cleared" => spy.calls = <<>>

\* C25: two Do calls of two goroutines overlapped: the one started first was
\* recorded last; a Calls ran between the two recordings and returned the
\* first record, the second Calls returned the other.
C25_Witness ==
    /\ pc = "spy"
    /\ Len(spy.results) = 2
    /\ Len(spy.results[1]) = 1
    /\ Len(spy.results[2]) = 1
    /\ spy.results[1][1].OutputError = ErrDoer
    /\ spy.results[2][1].OutputResponse = <<200>>
    /\ spy.results[1][1].InputRequest = 2
    /\ spy.results[2][1].InputRequest = 1
    /\ Len(spy.completed) = 2

\* The first of the six failure conditions of Request() that applies to
\* builder b, 0 when none applies.
FirstFailure(b) ==
    CASE b.builderError # NoError -> 1
      [] b.builderError = NoError /\ b.bodyToMarshal # "nil" /\ b.body # "nil" -> 2
      [] b.builderError = NoError /\ b.bodyToMarshal # "nil" /\ b.body = "nil"
             /\ b.bodyMarshaler = "nil" -> 3
      [] b.builderError = NoError /\ b.bodyToMarshal = "unmarshalable" /\ b.body = "nil"
             /\ b.bodyMarshaler # "nil" -> 4
      [] OTHER -> IF ~ValidMethod(b.method) THEN 5
                  ELSE IF b.overrideFunc = "fail" THEN 6
                  ELSE 0

\* Request() is the step.
Requested == calls'.request = calls.request + 1

\* C26: Request() returns the first failure that applies, in the order
\* captured endpoint error, body conflict, missing serializer, serializer
\* failure, request construction failure, override hook failure, and runs
\* nothing after it: the serializer is not invoked after checks 1-3 failed,
\* the hook is not invoked after checks 1-5 failed.
C26_FirstFailureWins ==
    [][ Requested =>
          LET stage == FirstFailure(rqb)
              err == lastReq'.err
              marshals == calls'.marshal - calls.marshal
              hooks == Len(calls'.hook) - Len(calls.hook)
          IN /\ stage = 0 <=> err = NoError
             /\ stage = 0 <=> lastReq'.req # <<>>
             /\ stage = 1 => err = rqb.builderError /\ marshals = 0 /\ hooks = 0
             /\ stage = 2 => err = ErrBodyConflict /\ marshals = 0 /\ hooks = 0
             /\ stage = 3 =>
                    /\ err = NewError("body to marshal is set but body marshaller is unset")
                    /\ marshals = 0
                    /\ hooks = 0
             /\ stage = 4 =>
                    /\ err = Wrap(Layer("unable to marshal body", "", "", <<>>), ErrMarshal)
                    /\ marshals = 1
                    /\ hooks = 0
             /\ stage = 5 =>
                    /\ err[1].msg = "unable to create request"
                    /\ marshals = (IF rqb.bodyToMarshal # "nil" THEN 1 ELSE 0)
                    /\ hooks = 0
             /\ stage = 6 =>
                    /\ err = Wrap(Layer("unable to override request", "", "", <<>>), ErrOverride)
                    /\ hooks = 1
      ]_vars

\* C26: Request() ran on a builder to which the captured error, the body
\* conflict, the invalid method and the failing hook all apply: it returned
\* the captured error, and neither serializer nor hook ran.
C26_Witness ==
    /\ pc = "request"
    /\ lastReq.called
    /\ rqb.builderError # NoError
    /\ rqb.body # "nil"
    /\ rqb.bodyToMarshal # "nil"
    /\ ~ValidMethod(rqb.method)
    /\ rqb.overrideFunc = "fail"
    /\ lastReq.err = rqb.builderError
    /\ calls.marshal = 0
    /\ calls.hook = <<>>

\* C26: the serializer failed on a builder with an invalid method and a
\* failing hook: the serializer error was returned, the hook did not run.
C26_WitnessSerializerFailed ==
    /\ pc = "request"
    /\ calls.request = 1
    /\ rqb.bodyToMarshal = "unmarshalable"
    /\ ~ValidMethod(rqb.method)
    /\ rqb.overrideFunc = "fail"
    /\ IsSuffix(ErrMarshal, lastReq.err)
    /\ calls.marshal = 1
    /\ calls.hook = <<>>

\* C26: the serializer is missing on a builder with a failing hook.
C26_WitnessSerializerMissing ==
    /\ pc = "request"
    /\ calls.request = 1
    /\ rqb.bodyToMarshal # "nil"
    /\ rqb.bodyMarshaler = "nil"
    /\ rqb.overrideFunc = "fail"
    /\ lastReq.err = NewError("body to marshal is set but body marshaller is unset")
    /\ calls.marshal = 0
    /\ calls.hook = <<>>

\* The request the Doer was handed by Do.
HandedToDoer == <<sent[Len(sent)].req>>

\* C28: Request() is repeatable: it leaves the builder's body sources as they
\* are, a further Request() returns what the previous one returned, and
\* Request() after Do() returns the request the Doer was handed.
C28_RequestRepeatable ==
    [][ Requested =>
          /\ rqb'.body = rqb.body
          /\ rqb'.bodyToMarshal = rqb.bodyToMarshal
          /\ rqb'.bodyMarshaler = rqb.bodyMarshaler
          /\ lastReq.called => (lastReq'.req = lastReq.req /\ lastReq'.err = lastReq.err)
          /\ (pc = "response" /\ sent # <<>>) =>
                 (lastReq'.req = HandedToDoer /\ lastReq'.err = NoError)
      ]_vars

\* C28, as the code behaves: Request() changes the builder only by storing the
\* serialized body as the raw body, when there is an object to serialize and
\* the serializer succeeded.  Without an object to serialize Request() leaves
\* the builder as it is, a further Request() returns what the previous one
\* returned, and Request() after Do() returns the request the Doer was
\* handed.  With an object to serialize, a Request() that follows a
\* successful Request() or Do() fails with the body-conflict error.
C28_RepeatableWithoutSerialization ==
    [][ Requested =>
          /\ rqb' = [rqb EXCEPT !.body =
                        IF rqb.bodyToMarshal # "nil" /\ FirstFailure(rqb) \in {0, 5, 6}
                        THEN "marshaled" ELSE @]
          /\ rqb.bodyToMarshal = "nil" =>
                 /\ rqb' = rqb
                 /\ lastReq.called =>
                        (lastReq'.req = lastReq.req /\ lastReq'.err = lastReq.err)
                 /\ (pc = "response" /\ sent # <<>>) =>
                        (lastReq'.req = HandedToDoer /\ lastReq'.err = NoError)
          /\ ( /\ rqb.bodyToMarshal # "nil"
               /\ \/ lastReq.called /\ lastReq.err = NoError
                  \/ pc = "response" /\ sent # <<>> ) =>
                 (lastReq'.req = <<>> /\ lastReq'.err = ErrBodyConflict)
      ]_vars

\* C28: on a builder with a raw body and an override hook, Request() was
\* called, Do() handed a request to the Doer, and Request() called again
\* returned that request.
C28_Witness ==
    /\ pc = "response"
    /\ calls.request = 2
    /\ rqb.bodyToMarshal = "nil"
    /\ rqb.body = "reader"
    /\ rqb.overrideFunc = "ok"
    /\ sent # <<>>
    /\ lastReq.err = NoError
    /\ lastReq.req = HandedToDoer

\* C28: on a builder with an object to serialize the second Request() failed
\* with the body-conflict error.
C28_WitnessSerializedTwice ==
    /\ pc = "request"
    /\ calls.request = 2
    /\ calls.marshal = 1
    /\ rqb.bodyToMarshal = "obj"
    /\ rqb.body = "marshaled"
    /\ lastReq.err = ErrBodyConflict

\* do has returned.
DoReturned == pc = "server" /\ srv.main # "do"

\* C30: whenever do returns, AssertRequest eventually returns, whatever the
\* number of requests do sent and whether it returned nil or an error.
C30_AssertRequestReturns == DoReturned ~> (srv.main = "returned")

\* C30, the part that holds: no handler sends on the closed channel, the
\* channel is closed only once every handler is done; and AssertRequest does
\* return when do returned nil after one request, or an error after none.
C30_NoSendOnClosedChannel ==
    /\ \A h \in 1..Len(srv.handlers) : srv.handlers[h].pc # "panicked"
    /\ srv.closed => \A h \in 1..Len(srv.handlers) : srv.handlers[h].pc = "done"

C30_ReturnsWhenChannelSuffices ==
    ( /\ DoReturned
      /\ \/ srv.ret = <<>> /\ Len(srv.handlers) \in {1, 2}
         \/ srv.ret = <<ErrDoFailed>> /\ Len(srv.handlers) <= 1 )
        ~> (srv.main = "returned")

\* C30: do returned nil without sending a request: AssertRequest waits on the
\* empty channel and no step is possible.
C30_StuckReceiving ==
    /\ pc = "server"
    /\ srv.main = "receiving"
    /\ srv.handlers = <<>>
    /\ srv.cerr = <<>>

\* C30: do returned an error after two requests: the second handler waits on
\* the full channel, httpServer.Close() waits for the handler.
C30_StuckClosing ==
    /\ pc = "server"
    /\ srv.main = "closing"
    /\ Len(srv.cerr) = ChannelCapacity
    /\ \E h \in 1..Len(srv.handlers) : srv.handlers[h].pc = "sending"
    /\ \A h \in 1..Len(srv.handlers) : srv.handlers[h].pc \in {"sending", "done"}

\* The cycles of the shared API that have their response builder.
Answered == {c \in Cycles : conc.cycle[c].pc = "response"}

\* C21: on one configured API, request cycles interleaved in any order each
\* get the result they get when run alone: the request sent and the response
\* builder of a cycle are those of the same calls made with no other cycle.
C21_CyclesIndependent ==
    pc = "conc" =>
        \A c \in Answered : conc.cycle[c].result[1] = conc.cycle[c].alone

\* C21: the request methods, Do, and the mutations of the builders they
\* return leave the API's configuration as it was configured: server
\* address, default header values, default handlers, ceiling, override hook.
C21_ConfigurationUnchanged ==
    pc = "conc" => APIByValue(conc) = conc.configured

\* C21: cycles that set headers, or add to headers whose slice has no spare
\* capacity, are independent.
C21_IndependentWithoutSpareCapacity ==
    pc = "conc" =>
        \A c \in Answered :
            (\A k \in DOMAIN conc.maps[conc.api.defaultRequestHeaders] :
                 LET s == conc.maps[conc.api.defaultRequestHeaders][k]
                 IN Cap(conc.arrays, s) = s.len)
                => conc.cycle[c].result[1] = conc.cycle[c].alone

\* C21: two cycles added a value to the default header, and the request of
\* one carries the value the other added.
C21_OverwrittenByOtherCycle ==
    /\ pc = "conc"
    /\ \E c \in Answered : \E d \in Cycles \ {c} :
           /\ conc.cycle[c].result[1].sent # <<>>
           /\ LET h == conc.cycle[c].result[1].sent[1].req.Header
              IN /\ "X-Id" \in DOMAIN h
                 /\ h["X-Id"][Len(h["X-Id"])] = CycleValue(d)

\* C21: two cycles have run to their response on one API and both mutated
\* their builders.
C21_TwoCyclesAnswered ==
    /\ pc = "conc"
    /\ Cardinality(Answered) >= 2
    /\ \A c \in Answered :
           HeaderContents(conc.arrays, conc.cycle[c].b.header)
               # conc.configured.maps[conc.api.defaultRequestHeaders]

\* C21: a cycle has its response, and the request its Doer was given now
\* shows header values that are not the ones the Doer read: another cycle
\* wrote into the array the request's header refers to.
C21_RecordedRequestChanged ==
    /\ pc = "conc"
    /\ \E c \in Answered :
           /\ conc.cycle[c].result[1].sent # <<>>
           /\ RequestNow(c).Header # conc.cycle[c].result[1].sent[1].req.Header

====
